---- MODULE Spec2Model ----
(***************************************************************************)
(* GeoAssistant: the agent kernel (BaseAgent.chat), the GeoAgent turn      *)
(* loop, the websocket session loop of main.py, and the analysis           *)
(* planner/executor (_GISAnalysis, GeoAgent.run_analysis).                 *)
(*                                                                         *)
(* Two specifications share this module:                                   *)
(*   Spec          sessions talking to the module-level agent of main.py   *)
(*   SpecAnalysis  one run of GeoAgent.run_analysis on a plan              *)
(* Each keeps the variables of the other at their initial value.           *)
(***************************************************************************)
EXTENDS Integers, Sequences, FiniteSets, TLC

(***************************************************************************)
(* Bounds                                                                  *)
(***************************************************************************)
\* user turns started over all sessions
MaxTurns == 2
\* items in one LLM response (response.output)
MaxItems == 2
\* steps in one analysis plan
MaxSteps == 2
\* the same two caps while two clients are connected at once
ConcTurns == 2
ConcItems == 1
\* times a client's coroutine is resumed while the other client's turn is
\* suspended at an await
MaxSwitches == 1

\* the websocket connections (two clients of the one process)
Sessions == {1, 2}
\* the agent's tools (tools.py) and a name that is no attribute of the agent
ToolNames == {"add_map_layer", "remove_map_layer", "reset_map", "run_analysis"}
CallNames == ToolNames \cup {"bogus"}

None == "None"

VARIABLES
    \* ---- the module-level agent of main.py ----
    agentKind,      \* "base": BaseAgent.chat, "geo": GeoAgent.chat (agent/_agent.py)
    messages,       \* agent.messages
    emitter,        \* agent.emitter: 0 (None) or the session whose _websocket_emit it is
    clients,        \* the websocket clients that connect to the process
    map_layers,     \* agent.map_handler.map_layers
    layer_filters,  \* agent.map_handler._layer_filters
    active_table,   \* agent.map_handler._active_table
    \* ---- one websocket_endpoint coroutine per session ----
    pc,             \* where the coroutine of each session stands
    turn,           \* the number of the turn the session is in
    nitems,         \* len(response.output) of the session's first LLM call
    idx,            \* position of the dispatch loop in response.output
    cur,            \* the output item the loop is dispatching
    made_calls,     \* made_calls / made_tool_calls
    result,         \* the handler result waiting to be recorded
    ret,            \* how the last chat() of the session ended
    outbox,         \* frames sent on the session's websocket
    \* ---- history ----
    nturns,         \* turns started so far
    lastSys,        \* the system message built most recently
    trace,          \* per session: dispatch events of the current turn, in order
    last,           \* the session whose coroutine ran last (0: none yet)
    switches,       \* resumptions of one session inside the other's turn so far
    \* ---- analysis run ----
    plan,           \* the plan as parsed from the LLM: [name, steps]
    apc,            \* position of run_analysis
    slots,          \* per step: its source-table slots after validation
    db,             \* tables existing in the database, as <<schema, table>>
    registry,       \* names of the tables in agent.registry
    items,          \* report items gathered by execute
    stepi,          \* next step of execute / next report item of run_analysis
    ran,            \* indexes of the steps execute has started, in order
    failed_at,      \* index of the SQL step that failed (0: none)
    schemas,        \* the analysis schemas existing in the database
    raised,         \* the exception that left run_analysis, or None
    \* ---- the handlers and the registry exercised on their own ----
    handlerKind,    \* "plotly": PlotlyMapHandler, "leaflet": DashLeafletMapHandler
    figure,         \* what update_figure exported last
    mop,            \* the map operation called last, with its arguments and outcome
    flt,            \* the filter being rendered
    rendered,       \* its renderings
    tables,         \* TableRegistry.tables, in the order of insertion, with the columns
    rop,            \* the registry operation called last, with its arguments and result
    bstep,          \* the _BufferStep the LLM proposed, and how far it got
    \* ---- a DocumentStore (doc_stores/_base.py) ----
    store_index,    \* self.index: the ids of the vectors, in the order they were added
    documents,      \* self.documents: id -> metadata
    index_file,     \* index.bin
    docs_file,      \* documents.json
    adding,         \* per session, the documents of an add that awaits the embeddings
    seed,           \* the hash seed of the running process
    sop,            \* the add or restart completed last
    smart,          \* the smart_query in progress: terms left, results so far
    \* ---- BaseAgent._build_tool_defs ----
    tool_meta,      \* fn._tool_meta["params"] of the agent's tool
    tool_decl,      \* the params as the @tool decorator declared them
    live,           \* the agent state the enum callables read: the ids of the map layers
    tool_defs,      \* the tool definition synthesized last
    \* ---- the hooks of an agent class (prechat, postchat, system_message) ----
    hooks           \* the decorators of the class and what chat() made of a message

agentVars == <<agentKind, messages, emitter, clients>>
mapVars   == <<map_layers, layer_filters, active_table>>
sessVars  == <<pc, turn, nitems, idx, cur, made_calls, result, ret, outbox>>
histVars  == <<nturns, lastSys, trace>>
chatVars  == <<agentVars, sessVars, histVars>>
analysisVars == <<plan, apc, slots, db, registry, items, stepi, ran, failed_at, schemas, raised>>
schedVars == <<last, switches>>
storeVars == <<store_index, documents, index_file, docs_file, adding, seed, sop, smart>>
toolVars  == <<tool_meta, tool_decl, live, tool_defs, hooks>>
auxVars   == <<handlerKind, figure, mop, flt, rendered, tables, rop, bstep, storeVars, toolVars>>
vars == <<chatVars, schedVars, mapVars, analysisVars, auxVars>>

(***************************************************************************)
(* Messages, events and LLM output items                                   *)
(***************************************************************************)
\* a message of agent.messages.  sid and turn name the chat() call that wrote
\* it, k the position of the output item it belongs to (0: none), val its
\* content, status the map status quoted by a developer message.
Msg(role, s, t, k, val, status) ==
    [role |-> role, sid |-> s, turn |-> t, k |-> k, val |-> val, status |-> status]

SysMsg(s, t, status) == Msg("developer", s, t, 0, "system", status)
UserMsg(s, t)        == Msg("user", s, t, 0, "user", {})
CallMsg(s, t, k)     == Msg("function_call", s, t, k, "call", {})
OutputMsg(s, t, k, r) == Msg("function_call_output", s, t, k, r, {})
TextItemMsg(s, t, k) == Msg("message", s, t, k, "text", {})
AssistantMsg(s, t, v) == Msg("assistant", s, t, 0, v, {})
Canned == "Failed to generate a response"

\* a frame sent to a subscriber
Event(kind, status, t, k) == [kind |-> kind, status |-> status, turn |-> t, k |-> k]

\* one item of response.output: a text message or a function call with its
\* name and its argument JSON ("bad": a string json.loads rejects)
Item(type, name, args, layer_id, table) ==
    [type |-> type, name |-> name, args |-> args, layer_id |-> layer_id, table |-> table]

TextItem == Item("message", None, "ok", None, None)
NoItem   == Item(None, None, "ok", None, None)

CallItems ==
    {Item("function_call", "add_map_layer", "ok", l, t) : l \in {"l1"}, t \in {"parcels", "ghost"}}
    \cup {Item("function_call", "remove_map_layer", "ok", l, None) : l \in {"l1"}}
    \cup {Item("function_call", n, "ok", None, None) : n \in {"reset_map", "run_analysis", "bogus"}}
    \cup {Item("function_call", "reset_map", "bad", None, None)}

OutputItems == {TextItem} \cup CallItems

(***************************************************************************)
(* Map handler (PlotlyMapHandler)                                          *)
(***************************************************************************)
EmptyMap == [x \in {} |-> None]

\* the layer dict built by PlotlyMapHandler._add_map_layer: source is the tile
\* url of the table, with "?filter=" and the CQL of the filters appended when
\* filters are given
Layer(table, color, filters, style) ==
    [source |-> <<table, filters>>,
     sourcelayer |-> table, type |-> style, color |-> color]

\* the descriptor built by DashLeafletMapHandler._add_map_layer: the url only;
\* color and style are swallowed by **kwargs
LeafletLayer(table, filters) ==
    [type |-> "VectorTileLayer", url |-> <<table, filters>>]

\* the base tile layer DashLeafletMapHandler.__init__ stores under 'default'
DefaultLayer == [type |-> "TileLayer", url |-> <<"basemap", <<>>>>]

LayerOf(table, color, filters, style) ==
    IF handlerKind = "plotly" THEN Layer(table, color, filters, style)
    ELSE LeafletLayer(table, filters)

Put(f, key, v) == [x \in (DOMAIN f) \cup {key} |-> IF x = key THEN v ELSE f[x]]
Pop(f, key)    == [x \in (DOMAIN f) \ {key} |-> f[x]]

\* PlotlyMapHandler.status: one entry per layer
Status(ml) == DOMAIN ml

\* the filters recorded without the check the handler makes on them
AddMapLayerKeepingFilters(table, layer_id, color, filters, style) ==
    /\ map_layers' = Put(map_layers, layer_id, LayerOf(table, color, filters, style))
    /\ layer_filters' = IF filters = <<>> /\ layer_id \in DOMAIN layer_filters
                        THEN layer_filters
                        ELSE Put(layer_filters, layer_id, filters)
    /\ active_table' = table

\* _add_map_layer(table, layer_id, color, filters, style); absent filters
\* (None, recorded as None or as []) are the empty sequence
AddMapLayer(table, layer_id, color, filters, style) ==
    /\ map_layers' = Put(map_layers, layer_id, LayerOf(table, color, filters, style))
    /\ layer_filters' = Put(layer_filters, layer_id, filters)
    /\ active_table' = table

\* PlotlyMapHandler._remove_map_layer: dict.pop raises KeyError on a missing
\* id; DashLeafletMapHandler._remove_map_layer tests membership first
RemoveRaises(layer_id) ==
    /\ handlerKind = "plotly"
    /\ \/ layer_id \notin DOMAIN map_layers
       \/ layer_id \notin DOMAIN layer_filters

\* a remove that leaves the recorded filters behind
RemoveMapLayerKeepingFilters(layer_id) ==
    /\ map_layers' = Pop(map_layers, layer_id)
    /\ UNCHANGED <<layer_filters, active_table>>

\* _remove_map_layer(layer_id): what it has changed when it returns or raises
RemoveMapLayer(layer_id) ==
    /\ map_layers' = Pop(map_layers, layer_id)
    /\ layer_filters' = IF layer_id \in DOMAIN map_layers
                        THEN Pop(layer_filters, layer_id)
                        ELSE layer_filters
    /\ UNCHANGED active_table

\* a reset that forgets the recorded filters
ResetMapLayersOnly ==
    /\ map_layers' = EmptyMap
    /\ UNCHANGED layer_filters
    /\ active_table' = None

\* _reset_map()
ResetMap ==
    /\ map_layers' = EmptyMap
    /\ layer_filters' = EmptyMap
    /\ active_table' = None

\* _global_bounds: the bounds of the active table, None without one
GlobalBounds == active_table

\* the whole-world view: the figure as constructed (zoom 2, no bounds) and
\* the {"center": [0, 0], "zoom": 2} of _compute_viewport
World == None

\* list(self.map_layers.values())
LayerValues(ml) == {ml[k] : k \in DOMAIN ml}

\* the figure before any update_figure
InitialFigure == [viewport |-> World, layers |-> {}]

\* update_figure: PlotlyMapHandler touches self.figure only when there are
\* bounds; DashLeafletMapHandler builds the payload anew
UpdateFigure ==
    figure' = IF handlerKind = "plotly" /\ GlobalBounds = None
              THEN figure
              ELSE [viewport |-> GlobalBounds, layers |-> LayerValues(map_layers)]

(***************************************************************************)
(* Strings that name tables: "t" is <<"t">>, "schema.t" is <<"schema", "t">> *)
(***************************************************************************)
Name(t) == <<t>>
Qualified(schema, t) == <<schema, t>>

\* Configuration.db_base_schema
BaseSchema == "base"
\* the tables of the base schema served by the tile server
BaseTables == {"parcels"}

\* a Table of the registry, by its name and schema
Table(name, schema) == [name |-> Name(name), schema |-> schema]

\* TableRegistry.__getitem__[('table', val)]: the registered tables whose name is val
RegistryLookup(reg, val) == {t \in reg : t.name = val}

(***************************************************************************)
(* Sessions: websocket_endpoint and the turn loop                          *)
(***************************************************************************)
SessPcs == {"closed", "idle", "sys", "ctx", "tools", "llm1", "loop", "emit",
            "invoke", "record", "llm2", "final", "dead"}

\* the caps in force
TurnCap == IF Cardinality(clients) > 1 THEN ConcTurns ELSE MaxTurns
ItemCap == IF Cardinality(clients) > 1 THEN ConcItems ELSE MaxItems

InTurn(s) == pc[s] \notin {"closed", "idle", "dead"}

\* await self.emitter(update): main.py's _websocket_emit of the session that
\* connected last sends the frame on that session's websocket
Emit(box, ev) == [box EXCEPT ![emitter] = Append(@, ev)]

\* an exception leaves chat() and, not being a WebSocketDisconnect, leaves
\* websocket_endpoint as well
Raise(s) ==
    /\ pc' = [pc EXCEPT ![s] = "dead"]
    /\ ret' = [ret EXCEPT ![s] = "raised"]

\* the system message appended at every turn instead of replacing element 0
InstallSystemAppended(msgs, sys) == Append(msgs, sys)

\* messages[0] = system_message if the list is non-empty, else append
InstallSystem(msgs, sys) ==
    IF msgs # <<>> THEN [msgs EXCEPT ![1] = sys] ELSE <<sys>>

\* the event loop resumes the coroutine of session s
Resume(s) ==
    LET preempts == last \in Sessions /\ last # s /\ InTurn(last) IN
    /\ preempts => switches < MaxSwitches
    /\ switches' = IF preempts THEN switches + 1 ELSE switches
    /\ last' = s

\* ws.accept(); agent.emitter = _websocket_emit
Connect(s) ==
    /\ Resume(s)
    /\ s \in clients
    /\ pc[s] = "closed"
    /\ pc' = [pc EXCEPT ![s] = "idle"]
    /\ emitter' = s
    /\ UNCHANGED <<agentKind, messages, clients, turn, nitems, idx, cur, made_calls,
                   result, ret, outbox, histVars, mapVars, analysisVars, auxVars>>

\* one pass of the receive loop up to the call of agent.chat
Receive(s) ==
    /\ Resume(s)
    /\ pc[s] = "idle"
    /\ \E frame \in {"user", "other", "malformed"} :
        \/ /\ frame = "user"
           /\ nturns < TurnCap
           /\ nturns' = nturns + 1
           /\ turn' = [turn EXCEPT ![s] = nturns + 1]
           /\ outbox' = [outbox EXCEPT ![s] =
                            Append(@, Event("echo", "user_message", nturns + 1, 0))]
           /\ pc' = [pc EXCEPT ![s] = "sys"]
           /\ ret' = [ret EXCEPT ![s] = None]
           /\ trace' = [trace EXCEPT ![s] = <<>>]
           /\ UNCHANGED lastSys
        \/ /\ frame = "other"
           /\ UNCHANGED <<pc, turn, outbox, ret, histVars>>
        \/ /\ frame = "malformed"
           /\ pc' = [pc EXCEPT ![s] = "dead"]
           /\ UNCHANGED <<turn, outbox, ret, histVars>>
    /\ UNCHANGED <<agentVars, nitems, idx, cur, made_calls, result,
                   mapVars, analysisVars, auxVars>>

(***************************************************************************)
(* Tool handlers as the dispatch loops call them                           *)
(***************************************************************************)
\* the outcomes a handler can have on the current state: "ok", "raise" (before
\* it changed anything) and, for add_map_layer under GeoAgent.chat, "late"
\* (filter_count raises after the layer was added)
Outcomes(item) ==
    CASE item.name = "add_map_layer" ->
            IF RegistryLookup(registry, Name(item.table)) = {}
            THEN {"raise"}
            ELSE IF agentKind = "geo" THEN {"ok", "raise", "late"} ELSE {"ok", "raise"}
      [] item.name = "remove_map_layer" ->
            IF RemoveRaises(item.layer_id) THEN {"raise"} ELSE {"ok"}
      [] item.name = "reset_map" -> {"ok"}
      [] item.name = "run_analysis" -> {"ok", "raise"}
      [] OTHER -> {"raise"}

\* what the handler does to the map
HandlerEffect(item, outcome) ==
    IF outcome = "raise" THEN UNCHANGED mapVars
    ELSE CASE item.name = "add_map_layer" ->
                AddMapLayer(item.table, item.layer_id, "red", <<>>, "line")
           [] item.name = "remove_map_layer" -> RemoveMapLayer(item.layer_id)
           [] item.name = "reset_map" -> ResetMap
           [] OTHER -> UNCHANGED mapVars

ResultOf(outcome) == IF outcome = "ok" THEN "ok" ELSE "failed"

(***************************************************************************)
(* BaseAgent.chat                                                          *)
(***************************************************************************)
\* _build_system_message, then install it as messages[0] and append the user
\* message.  (_prechat_func looks for _is_prechat, which @prechat never sets.)
BuildSystem(s) ==
    /\ Resume(s)
    /\ agentKind = "base"
    /\ pc[s] = "sys"
    /\ \E ok \in BOOLEAN :
        IF ok
        THEN LET sys == SysMsg(s, turn[s], Status(map_layers)) IN
             /\ messages' = Append(InstallSystem(messages, sys), UserMsg(s, turn[s]))
             /\ lastSys' = sys
             /\ pc' = [pc EXCEPT ![s] = "tools"]
             /\ UNCHANGED ret
        ELSE /\ Raise(s)
             /\ UNCHANGED <<messages, lastSys>>
    /\ UNCHANGED <<agentKind, emitter, clients, turn, nitems, idx, cur, made_calls, result,
                   outbox, nturns, trace, mapVars, analysisVars, auxVars>>

\* _build_tool_defs, then emit GENERATING
BuildTools(s) ==
    /\ Resume(s)
    /\ agentKind = "base"
    /\ pc[s] = "tools"
    /\ \E ok \in BOOLEAN :
        IF ok
        THEN /\ outbox' = Emit(outbox, Event("emit", "generating", turn[s], 0))
             /\ pc' = [pc EXCEPT ![s] = "llm1"]
             /\ UNCHANGED ret
        ELSE /\ Raise(s)
             /\ UNCHANGED outbox
    /\ UNCHANGED <<agentVars, turn, nitems, idx, cur, made_calls, result,
                   histVars, mapVars, analysisVars, auxVars>>

\* the except branch of either LLM call: emit ERROR, append the canned
\* assistant message, return the error string
LLMFailed(s) ==
    /\ outbox' = Emit(outbox, Event("emit", "error", turn[s], 0))
    /\ messages' = Append(messages, AssistantMsg(s, turn[s], Canned))
    /\ ret' = [ret EXCEPT ![s] = "error_string"]
    /\ pc' = [pc EXCEPT ![s] = "idle"]

\* first client.responses.create(input=messages, tools=tool_defs)
FirstLLM(s) ==
    /\ Resume(s)
    /\ agentKind = "base"
    /\ pc[s] = "llm1"
    /\ \/ /\ LLMFailed(s)
          /\ UNCHANGED <<nitems, idx, made_calls>>
       \/ \E n \in 0..ItemCap :
          /\ nitems' = [nitems EXCEPT ![s] = n]
          /\ idx' = [idx EXCEPT ![s] = 1]
          /\ made_calls' = [made_calls EXCEPT ![s] = FALSE]
          /\ pc' = [pc EXCEPT ![s] = "loop"]
          /\ UNCHANGED <<messages, ret, outbox>>
    /\ UNCHANGED <<agentKind, emitter, clients, turn, cur, result, histVars, mapVars, analysisVars, auxVars>>

\* the head of one iteration of "for tool_call in response.output": skip a
\* non-call item; else append the call, look the handler up (getattr) and
\* parse the arguments (json.loads).  The items of response.output are read
\* one per iteration, so each is drawn when the loop reaches it.
Dispatch(s) ==
    /\ Resume(s)
    /\ agentKind = "base"
    /\ pc[s] = "loop"
    /\ idx[s] <= nitems[s]
    /\ \E item \in OutputItems :
        IF item.type # "function_call"
        THEN /\ idx' = [idx EXCEPT ![s] = @ + 1]
             /\ UNCHANGED <<messages, made_calls, cur, pc, ret, trace>>
        ELSE /\ messages' = Append(messages, CallMsg(s, turn[s], idx[s]))
             /\ made_calls' = [made_calls EXCEPT ![s] = TRUE]
             /\ trace' = [trace EXCEPT ![s] = Append(@, <<"call", idx[s]>>)]
             /\ IF item.name \notin ToolNames \/ item.args = "bad"
                THEN /\ Raise(s)
                     /\ UNCHANGED <<idx, cur>>
                ELSE /\ cur' = [cur EXCEPT ![s] = item]
                     /\ pc' = [pc EXCEPT ![s] = "emit"]
                     /\ UNCHANGED <<idx, ret>>
    /\ UNCHANGED <<agentKind, emitter, clients, turn, nitems, result, outbox, nturns, lastSys,
                   mapVars, analysisVars, auxVars>>

\* emit ToolUpdate(PROCESSING, tool_call, tool_args)
EmitProcessing(s) ==
    /\ Resume(s)
    /\ agentKind = "base"
    /\ pc[s] = "emit"
    /\ outbox' = Emit(outbox, Event("tool", "processing", turn[s], idx[s]))
    /\ trace' = [trace EXCEPT ![s] = Append(@, <<"processing", idx[s]>>)]
    /\ pc' = [pc EXCEPT ![s] = "invoke"]
    /\ UNCHANGED <<agentVars, turn, nitems, idx, cur, made_calls, result, ret,
                   nturns, lastSys, mapVars, analysisVars, auxVars>>

\* the handler called outside the try block: its exception leaves chat()
InvokeUnprotected(s) ==
    /\ Resume(s)
    /\ agentKind = "base"
    /\ pc[s] = "invoke"
    /\ \E outcome \in Outcomes(cur[s]) :
        /\ HandlerEffect(cur[s], outcome)
        /\ IF outcome = "ok"
           THEN /\ result' = [result EXCEPT ![s] = "ok"]
                /\ pc' = [pc EXCEPT ![s] = "record"]
                /\ UNCHANGED ret
           ELSE /\ Raise(s)
                /\ UNCHANGED result
    /\ trace' = [trace EXCEPT ![s] = Append(@, <<"invoke", idx[s]>>)]
    /\ UNCHANGED <<agentVars, turn, nitems, idx, cur, made_calls, outbox,
                   nturns, lastSys, analysisVars, auxVars>>

\* result = await _safe_run(handler, **kwargs); on an exception the result is
\* the failure text and ToolUpdate(ERROR) is emitted
Invoke(s) ==
    /\ Resume(s)
    /\ agentKind = "base"
    /\ pc[s] = "invoke"
    /\ \E outcome \in Outcomes(cur[s]) :
        /\ HandlerEffect(cur[s], outcome)
        /\ result' = [result EXCEPT ![s] = ResultOf(outcome)]
        /\ outbox' = IF outcome = "ok" THEN outbox
                     ELSE Emit(outbox, Event("tool", "error", turn[s], idx[s]))
    /\ trace' = [trace EXCEPT ![s] = Append(@, <<"invoke", idx[s]>>)]
    /\ pc' = [pc EXCEPT ![s] = "record"]
    /\ UNCHANGED <<agentVars, turn, nitems, idx, cur, made_calls, ret,
                   nturns, lastSys, analysisVars, auxVars>>

\* messages.append({"type": "function_call_output", ...}); next iteration
RecordOutput(s) ==
    /\ Resume(s)
    /\ agentKind = "base"
    /\ pc[s] = "record"
    /\ messages' = Append(messages, OutputMsg(s, turn[s], idx[s], result[s]))
    /\ trace' = [trace EXCEPT ![s] = Append(@, <<"output", idx[s]>>)]
    /\ idx' = [idx EXCEPT ![s] = @ + 1]
    /\ result' = [result EXCEPT ![s] = None]
    /\ cur' = [cur EXCEPT ![s] = NoItem]
    /\ pc' = [pc EXCEPT ![s] = "loop"]
    /\ UNCHANGED <<agentKind, emitter, clients, turn, nitems, made_calls, ret, outbox,
                   nturns, lastSys, mapVars, analysisVars, auxVars>>

\* the loop is over: "if made_calls" decides on the second LLM call
LoopDone(s) ==
    /\ Resume(s)
    /\ agentKind = "base"
    /\ pc[s] = "loop"
    /\ idx[s] > nitems[s]
    /\ pc' = [pc EXCEPT ![s] = IF made_calls[s] THEN "llm2" ELSE "final"]
    /\ UNCHANGED <<agentVars, turn, nitems, idx, cur, made_calls, result, ret, outbox,
                   histVars, mapVars, analysisVars, auxVars>>

\* second client.responses.create(input=messages)
SecondLLM(s) ==
    /\ Resume(s)
    /\ agentKind = "base"
    /\ pc[s] = "llm2"
    /\ \/ LLMFailed(s)
       \/ /\ pc' = [pc EXCEPT ![s] = "final"]
          /\ UNCHANGED <<messages, ret, outbox>>
    /\ UNCHANGED <<agentKind, emitter, clients, turn, nitems, idx, cur, made_calls, result,
                   histVars, mapVars, analysisVars, auxVars>>

\* the reply appended and returned without the AiUpdate(SUCCEDED) event
FinishSilent(s) ==
    /\ Resume(s)
    /\ agentKind = "base"
    /\ pc[s] = "final"
    /\ messages' = Append(messages, AssistantMsg(s, turn[s], "reply"))
    /\ ret' = [ret EXCEPT ![s] = "reply"]
    /\ pc' = [pc EXCEPT ![s] = "idle"]
    /\ UNCHANGED <<agentKind, emitter, clients, turn, nitems, idx, cur, made_calls, result,
                   outbox, histVars, mapVars, analysisVars, auxVars>>

\* append the assistant reply, emit AiUpdate(SUCCEDED), return the reply.
\* (_postchat_func looks for _is_postchat, which @postchat never sets.)
Finish(s) ==
    /\ Resume(s)
    /\ agentKind = "base"
    /\ pc[s] = "final"
    /\ messages' = Append(messages, AssistantMsg(s, turn[s], "reply"))
    /\ outbox' = Emit(outbox, Event("ai", "succeeded", turn[s], 0))
    /\ ret' = [ret EXCEPT ![s] = "reply"]
    /\ pc' = [pc EXCEPT ![s] = "idle"]
    /\ UNCHANGED <<agentKind, emitter, clients, turn, nitems, idx, cur, made_calls, result,
                   histVars, mapVars, analysisVars, auxVars>>

(***************************************************************************)
(* GeoAgent.chat (agent/_agent.py)                                         *)
(***************************************************************************)
\* _update_dev_message: messages[0] = the developer message with the current
\* map status
UpdateDevMessage(msgs, s) == [msgs EXCEPT ![1] = SysMsg(s, turn[s], Status(map_layers))]

\* reload the registry from the tile server, append the user message
GeoBegin(s) ==
    /\ Resume(s)
    /\ agentKind = "geo"
    /\ pc[s] = "sys"
    /\ \E ok \in BOOLEAN :
        IF ok
        THEN /\ messages' = Append(messages, UserMsg(s, turn[s]))
             /\ pc' = [pc EXCEPT ![s] = "ctx"]
             /\ UNCHANGED ret
        ELSE /\ Raise(s)
             /\ UNCHANGED messages
    /\ UNCHANGED <<agentKind, emitter, clients, turn, nitems, idx, cur, made_calls, result,
                   outbox, histVars, mapVars, analysisVars, auxVars>>

\* info_store.query, then _update_dev_message(context)
GeoContext(s) ==
    /\ Resume(s)
    /\ agentKind = "geo"
    /\ pc[s] = "ctx"
    /\ \E ok \in BOOLEAN :
        IF ok
        THEN /\ messages' = UpdateDevMessage(messages, s)
             /\ lastSys' = SysMsg(s, turn[s], Status(map_layers))
             /\ pc' = [pc EXCEPT ![s] = "tools"]
             /\ UNCHANGED ret
        ELSE /\ Raise(s)
             /\ UNCHANGED <<messages, lastSys>>
    /\ UNCHANGED <<agentKind, emitter, clients, turn, nitems, idx, cur, made_calls, result,
                   outbox, nturns, trace, mapVars, analysisVars, auxVars>>

\* _get_field_defs, verify_fields, the registry query and the tool definitions
GeoTools(s) ==
    /\ Resume(s)
    /\ agentKind = "geo"
    /\ pc[s] = "tools"
    /\ \E ok \in BOOLEAN :
        IF ok
        THEN /\ pc' = [pc EXCEPT ![s] = "llm1"]
             /\ UNCHANGED ret
        ELSE Raise(s)
    /\ UNCHANGED <<agentVars, turn, nitems, idx, cur, made_calls, result,
                   outbox, histVars, mapVars, analysisVars, auxVars>>

\* res = await client.responses.create(...), outside any try
GeoFirstLLM(s) ==
    /\ Resume(s)
    /\ agentKind = "geo"
    /\ pc[s] = "llm1"
    /\ \/ /\ Raise(s)
          /\ UNCHANGED <<nitems, idx, made_calls>>
       \/ \E n \in 0..ItemCap :
          /\ nitems' = [nitems EXCEPT ![s] = n]
          /\ idx' = [idx EXCEPT ![s] = 1]
          /\ made_calls' = [made_calls EXCEPT ![s] = FALSE]
          /\ pc' = [pc EXCEPT ![s] = "loop"]
          /\ UNCHANGED ret
    /\ UNCHANGED <<agentVars, turn, cur, result, outbox, histVars, mapVars, analysisVars, auxVars>>

\* the head of one iteration of "for tool_call in res.output": the item is
\* appended whatever its type; for a call the arguments are parsed and, for
\* add_map_layer, the table is looked up in the registry ([0] of the result)
GeoDispatch(s) ==
    /\ Resume(s)
    /\ agentKind = "geo"
    /\ pc[s] = "loop"
    /\ idx[s] <= nitems[s]
    /\ \E item \in OutputItems :
        IF item.type # "function_call"
        THEN /\ messages' = Append(messages, TextItemMsg(s, turn[s], idx[s]))
             /\ idx' = [idx EXCEPT ![s] = @ + 1]
             /\ UNCHANGED <<made_calls, cur, pc, ret, trace>>
        ELSE /\ messages' = Append(messages, CallMsg(s, turn[s], idx[s]))
             /\ made_calls' = [made_calls EXCEPT ![s] = TRUE]
             /\ trace' = [trace EXCEPT ![s] = Append(@, <<"call", idx[s]>>)]
             /\ IF \/ item.args = "bad"
                   \/ /\ item.name = "add_map_layer"
                      /\ RegistryLookup(registry, Name(item.table)) = {}
                THEN /\ Raise(s)
                     /\ UNCHANGED <<idx, cur>>
                ELSE /\ cur' = [cur EXCEPT ![s] = item]
                     /\ pc' = [pc EXCEPT ![s] = "invoke"]
                     /\ UNCHANGED <<idx, ret>>
    /\ UNCHANGED <<agentKind, emitter, clients, turn, nitems, result, outbox, nturns, lastSys,
                   mapVars, analysisVars, auxVars>>

\* the try block of the tool: the handler of self.tools, or run_analysis
GeoInvoke(s) ==
    /\ Resume(s)
    /\ agentKind = "geo"
    /\ pc[s] = "invoke"
    /\ \E outcome \in Outcomes(cur[s]) :
        /\ HandlerEffect(cur[s], outcome)
        /\ result' = [result EXCEPT ![s] = ResultOf(outcome)]
    /\ trace' = [trace EXCEPT ![s] = Append(@, <<"invoke", idx[s]>>)]
    /\ pc' = [pc EXCEPT ![s] = "record"]
    /\ UNCHANGED <<agentVars, turn, nitems, idx, cur, made_calls, ret, outbox,
                   nturns, lastSys, analysisVars, auxVars>>

\* _update_dev_message(context), then append the function_call_output
GeoRecord(s) ==
    /\ Resume(s)
    /\ agentKind = "geo"
    /\ pc[s] = "record"
    /\ messages' = Append(UpdateDevMessage(messages, s),
                          OutputMsg(s, turn[s], idx[s], result[s]))
    /\ lastSys' = SysMsg(s, turn[s], Status(map_layers))
    /\ trace' = [trace EXCEPT ![s] = Append(@, <<"output", idx[s]>>)]
    /\ idx' = [idx EXCEPT ![s] = @ + 1]
    /\ result' = [result EXCEPT ![s] = None]
    /\ cur' = [cur EXCEPT ![s] = NoItem]
    /\ pc' = [pc EXCEPT ![s] = "loop"]
    /\ UNCHANGED <<agentKind, emitter, clients, turn, nitems, made_calls, ret, outbox,
                   nturns, mapVars, analysisVars, auxVars>>

\* the loop is over: "if made_tool_calls"
GeoLoopDone(s) ==
    /\ Resume(s)
    /\ agentKind = "geo"
    /\ pc[s] = "loop"
    /\ idx[s] > nitems[s]
    /\ pc' = [pc EXCEPT ![s] = IF made_calls[s] THEN "llm2" ELSE "final"]
    /\ UNCHANGED <<agentVars, turn, nitems, idx, cur, made_calls, result, ret, outbox,
                   histVars, mapVars, analysisVars, auxVars>>

\* the second client.responses.create, outside any try
GeoSecondLLM(s) ==
    /\ Resume(s)
    /\ agentKind = "geo"
    /\ pc[s] = "llm2"
    /\ \/ Raise(s)
       \/ /\ pc' = [pc EXCEPT ![s] = "final"]
          /\ UNCHANGED ret
    /\ UNCHANGED <<agentVars, turn, nitems, idx, cur, made_calls, result, outbox,
                   histVars, mapVars, analysisVars, auxVars>>

\* append the assistant message and return it
GeoFinish(s) ==
    /\ Resume(s)
    /\ agentKind = "geo"
    /\ pc[s] = "final"
    /\ messages' = Append(messages, AssistantMsg(s, turn[s], "reply"))
    /\ ret' = [ret EXCEPT ![s] = "reply"]
    /\ pc' = [pc EXCEPT ![s] = "idle"]
    /\ UNCHANGED <<agentKind, emitter, clients, turn, nitems, idx, cur, made_calls, result,
                   outbox, histVars, mapVars, analysisVars, auxVars>>

(***************************************************************************)
(* The specification of the sessions                                       *)
(***************************************************************************)
NoMsg == Msg(None, 0, 0, 0, None, {})
\* the developer message GeoAgent.__init__ installs ("Graph not updated yet.")
InitialDevMessage == SysMsg(0, 0, {})
NoPlan == [name |-> None, steps |-> <<>>]

\* the analysis variables while no analysis is modelled
AnalysisIdle ==
    /\ plan = NoPlan
    /\ apc = "off"
    /\ slots = <<>>
    /\ db = {Qualified(BaseSchema, t) : t \in BaseTables}
    /\ registry = {Table(t, BaseSchema) : t \in BaseTables}
    /\ items = <<>>
    /\ stepi = 0
    /\ ran = <<>>
    /\ failed_at = 0
    /\ schemas = {}
    /\ raised = None

\* the map handler as constructed
MapInit ==
    /\ map_layers = IF handlerKind = "leaflet"
                    THEN [x \in {"default"} |-> DefaultLayer]
                    ELSE EmptyMap
    /\ layer_filters = EmptyMap
    /\ active_table = None
    /\ figure = InitialFigure

\* a map operation with its arguments, whether the layer it names was on the
\* map before (for a reset: whether any layer was) and whether it raised
MapOp(op, layer_id, table, color, filters, style, existed, raised_) ==
    [op |-> op, layer_id |-> layer_id, table |-> table, color |-> color,
     filters |-> filters, style |-> style, existed |-> existed, raised |-> raised_]

NoMapOp == MapOp(None, None, None, None, <<>>, None, FALSE, FALSE)
NoFilter == [field |-> None, op |-> None, value |-> <<>>, type |-> None]
NoRendering == [done |-> FALSE]
NoRegistryOp == [op |-> None]
NoBufferStep == [status |-> None]
NoStoreOp == [op |-> None]
NoSmartQuery == [status |-> None]
NoToolDefs == [done |-> FALSE]
NoHooks == [stage |-> None]

\* a store nothing was added to, in a process that adds nothing
StoreIdle ==
    /\ store_index = <<>>
    /\ documents = EmptyMap
    /\ index_file = <<>>
    /\ docs_file = EmptyMap
    /\ adding = [s \in Sessions |-> <<>>]
    /\ seed = 1
    /\ sop = NoStoreOp
    /\ smart = NoSmartQuery

\* an agent class without tools
ToolsIdle ==
    /\ tool_meta = EmptyMap
    /\ tool_decl = EmptyMap
    /\ live = {}
    /\ tool_defs = NoToolDefs
    /\ hooks = NoHooks

\* main.py builds the agent with a PlotlyMapHandler; nothing is rendered or
\* asked of the registry outside the turns
AuxIdle ==
    /\ handlerKind = "plotly"
    /\ mop = NoMapOp
    /\ flt = NoFilter
    /\ rendered = NoRendering
    /\ tables = <<>>
    /\ rop = NoRegistryOp
    /\ bstep = NoBufferStep
    /\ StoreIdle
    /\ ToolsIdle

ChatInit ==
    /\ agentKind \in {"base", "geo"}
    /\ messages = IF agentKind = "geo" THEN <<InitialDevMessage>> ELSE <<>>
    /\ lastSys = IF agentKind = "geo" THEN InitialDevMessage ELSE NoMsg
    /\ emitter = 0
    /\ pc = [s \in Sessions |-> "closed"]
    /\ turn = [s \in Sessions |-> 0]
    /\ nitems = [s \in Sessions |-> 0]
    /\ idx = [s \in Sessions |-> 0]
    /\ cur = [s \in Sessions |-> NoItem]
    /\ made_calls = [s \in Sessions |-> FALSE]
    /\ result = [s \in Sessions |-> None]
    /\ ret = [s \in Sessions |-> None]
    /\ outbox = [s \in Sessions |-> <<>>]
    /\ nturns = 0
    /\ trace = [s \in Sessions |-> <<>>]
    /\ last = 0
    /\ switches = 0
    /\ AuxIdle
    /\ MapInit
    /\ AnalysisIdle

Next ==
    \E s \in Sessions :
        \/ Connect(s)
        \/ Receive(s)
        \/ BuildSystem(s)
        \/ BuildTools(s)
        \/ FirstLLM(s)
        \/ Dispatch(s)
        \/ EmitProcessing(s)
        \/ Invoke(s)
        \/ RecordOutput(s)
        \/ LoopDone(s)
        \/ SecondLLM(s)
        \/ Finish(s)
        \/ GeoBegin(s)
        \/ GeoContext(s)
        \/ GeoTools(s)
        \/ GeoFirstLLM(s)
        \/ GeoDispatch(s)
        \/ GeoInvoke(s)
        \/ GeoRecord(s)
        \/ GeoLoopDone(s)
        \/ GeoSecondLLM(s)
        \/ GeoFinish(s)

\* one client
Init ==
    /\ clients = {1}
    /\ ChatInit

Spec == Init /\ [][Next]_vars

\* two clients connected to the same process
InitSessions ==
    /\ clients = Sessions
    /\ ChatInit

SpecSessions == InitSessions /\ [][Next]_vars

(***************************************************************************)
(* Analysis plans (_GISAnalysis and its steps)                             *)
(***************************************************************************)
\* the name the LLM gives the analysis
AnalysisName == "an"
\* output_table names the LLM may choose
OutNames == {"a", "b"}
\* output_table_idx = None
NoIdx == 0 - 1

\* a _SourceTable as parsed: output_table_idx (Optional[int]) and
\* source_table (a member of the tables enum, or None)
Slot(i, t) == [output_table_idx |-> i, source_table |-> t]

\* the slots the LLM may emit: a named table, an index with or without a
\* table beside it, or neither
SlotSet ==
    {Slot(NoIdx, t) : t \in BaseTables \cup {None}}
    \cup {Slot(0, t) : t \in BaseTables \cup {None}}
    \cup {Slot(i, None) : i \in 1..MaxSteps}

\* steps: "sql" is a _FilterStep, _AggregateStep or _BufferStep (one
\* source_table), "merge" a _MergeStep (left_table, right_table), "addLayer"
\* the reporting step (_AddMapLayer)
Step(kind, out, src) == [kind |-> kind, output_table |-> out, src |-> src]

StepSet ==
    {Step("sql", o, <<sl>>) : o \in OutNames, sl \in SlotSet}
    \cup {Step("merge", o, <<sl, Slot(NoIdx, t)>>) : o \in OutNames, sl \in SlotSet, t \in BaseTables}
    \cup {Step("addLayer", None, <<sl>>) : sl \in SlotSet}

PlanSet ==
    {[name |-> AnalysisName, steps |-> st] :
        st \in UNION {[1..n -> StepSet] : n \in 1..MaxSteps}}

\* the _SaveTable reporting step, a step type of STEP_TYPES that run_analysis
\* does not pass to build_model
SaveSteps == {Step("save", None, <<sl>>) : sl \in SlotSet}

\* the plans of a model built with every step type
ExecutePlanSet ==
    {[name |-> AnalysisName, steps |-> st] :
        st \in UNION {[1..n -> StepSet \cup SaveSteps] : n \in 1..MaxSteps}}

IsSQLStep(step) == step.kind \in {"sql", "merge"}

\* positions of the SQL steps of the plan, in order
RECURSIVE SQLPositions(_, _)
SQLPositions(steps, p) ==
    IF p > Len(steps) THEN <<>>
    ELSE IF IsSQLStep(steps[p]) THEN <<p>> \o SQLPositions(steps, p + 1)
    ELSE SQLPositions(steps, p + 1)

\* _GISAnalysis.output_tables
output_tables(pl) ==
    LET pos == SQLPositions(pl.steps, 1) IN
    [i \in 1..Len(pos) |-> pl.steps[pos[i]].output_table]

\* the value _fill_in_source_tables gives one slot; Unresolved when the
\* statement raises (IndexError on output_tables, AttributeError on None.value)
Unresolved == <<>>

ResolveSlot(pl, sl) ==
    IF sl.output_table_idx # NoIdx /\ sl.output_table_idx # 0
    THEN IF sl.output_table_idx + 1 > Len(output_tables(pl))
         THEN Unresolved
         ELSE Qualified(pl.name, output_tables(pl)[sl.output_table_idx + 1])
    ELSE IF sl.source_table = None
         THEN Unresolved
         ELSE Qualified(BaseSchema, sl.source_table)

\* _fill_in_source_tables over all steps and all their source-table fields
FillInSourceTables(pl) ==
    [p \in 1..Len(pl.steps) |->
        [j \in 1..Len(pl.steps[p].src) |-> ResolveSlot(pl, pl.steps[p].src[j])]]

ValidationRaises(pl) ==
    \E p \in 1..Len(pl.steps) : \E j \in 1..Len(pl.steps[p].src) :
        FillInSourceTables(pl)[p][j] = Unresolved

\* report items
TableCreated(t) == [type |-> "TableCreated", table |-> Name(t), layer_id |-> None]
PlotlyMapLayerArguements(src) ==
    [type |-> "PlotlyMapLayerArguements", table |-> src, layer_id |-> "l1"]

\* _final_tables: outputs of SaveTable steps (no step type of run_analysis)
\* and outputs of this analysis fed into map-layer steps, by table name
FinalTables(pl, sl) ==
    {<<sl[p][1][2]>> : p \in {q \in 1..Len(pl.steps) :
                                /\ pl.steps[q].kind = "addLayer"
                                /\ sl[q][1][1] = pl.name}}

(***************************************************************************)
(* GeoAgent.run_analysis and _GISAnalysis.execute                          *)
(***************************************************************************)
\* responses.parse(text_format=DynGISModel): building the model runs
\* _fill_in_source_tables; an exception there leaves run_analysis before its try
Validate ==
    /\ apc = "parse"
    /\ IF ValidationRaises(plan)
       THEN /\ apc' = "done"
            /\ raised' = "ValidationError"
            /\ UNCHANGED slots
       ELSE /\ slots' = FillInSourceTables(plan)
            /\ apc' = "execute"
            /\ UNCHANGED raised
    /\ UNCHANGED <<plan, db, registry, items, stepi, ran, failed_at, schemas,
                   chatVars, schedVars, mapVars, auxVars>>

\* an execute that goes on to its steps without creating the schema
CreateSchemaSkipped ==
    /\ apc = "execute"
    /\ stepi = 0
    /\ stepi' = 1
    /\ UNCHANGED <<plan, apc, slots, db, registry, items, ran, failed_at, schemas, raised,
                   chatVars, schedVars, mapVars, auxVars>>

\* execute: CREATE SCHEMA IF NOT EXISTS {name}; GRANT USAGE ...
CreateSchema ==
    /\ apc = "execute"
    /\ stepi = 0
    /\ schemas' = schemas \cup {plan.name}
    /\ stepi' = 1
    /\ UNCHANGED <<plan, apc, slots, db, registry, items, ran, failed_at, raised,
                   chatVars, schedVars, mapVars, auxVars>>

\* the source tables of step p exist in the database
SourcesExist(p) == \A j \in 1..Len(slots[p]) : slots[p][j] \in db

\* how the SQL of step p can end: "fail" in the statement that creates the
\* table (always, without its source tables), "postfail" in the postprocess
\* statement that follows it
SQLOutcomes(p) == IF SourcesExist(p) THEN {"ok", "fail", "postfail"} ELSE {"fail"}

\* execute_template_sql on an Engine: "with engine.begin() as conn" commits
\* the writes of the statement when it succeeds and rolls them back when it
\* raises
ExecuteTemplateSql(committed, writes, ok) ==
    IF ok THEN committed \cup writes ELSE committed

\* _SQLStep._execute: the statement of the step, then "postprocess", each in
\* a call of execute_template_sql of its own
ExecuteSQLStep(committed, table, outcome) ==
    LET created == ExecuteTemplateSql(committed, {table}, outcome # "fail") IN
    IF outcome = "fail" THEN created
    ELSE ExecuteTemplateSql(created, {}, outcome = "ok")

\* one iteration of "for step in self.steps"
ExecuteStep ==
    /\ apc = "execute"
    /\ stepi >= 1
    /\ stepi <= Len(plan.steps)
    /\ ran' = Append(ran, stepi)
    /\ LET step == plan.steps[stepi] IN
       IF IsSQLStep(step)
       THEN \E outcome \in SQLOutcomes(stepi) :
              /\ db' = ExecuteSQLStep(db, Qualified(plan.name, step.output_table), outcome)
              /\ IF outcome = "ok"
                 THEN /\ items' = Append(items, TableCreated(step.output_table))
                      /\ stepi' = stepi + 1
                      /\ UNCHANGED <<apc, failed_at, raised>>
                 ELSE /\ raised' = "AnalysisSQLStepFailed"
                      /\ failed_at' = stepi
                      /\ apc' = "cleanup"
                      /\ UNCHANGED <<items, stepi>>
       ELSE /\ items' = IF step.kind = "addLayer"
                        THEN Append(items, PlotlyMapLayerArguements(slots[stepi][1]))
                        ELSE items
            /\ stepi' = stepi + 1
            /\ UNCHANGED <<db, apc, failed_at, raised>>
    /\ UNCHANGED <<plan, slots, registry, schemas, chatVars, schedVars, mapVars, auxVars>>

\* execute returns GISReport(items)
ExecuteDone ==
    /\ apc = "execute"
    /\ stepi > Len(plan.steps)
    /\ apc' = "report"
    /\ stepi' = 1
    /\ UNCHANGED <<plan, slots, db, registry, items, ran, failed_at, schemas, raised,
                   chatVars, schedVars, mapVars, auxVars>>

\* TableRegistry.register(name): the tile server index is searched for the
\* name.  "listed": the table is added; "unlisted": the loop matches nothing
\* and the entry of the last index id is returned; "raise": an HTTP or
\* _postprocess failure
RegisterOutcomes == {"listed", "unlisted", "raise"}

\* one iteration of "for item in report.items"
ReportItem ==
    /\ apc = "report"
    /\ stepi <= Len(items)
    /\ LET item == items[stepi] IN
       IF item.type = "TableCreated"
       THEN \E outcome \in RegisterOutcomes :
              /\ registry' = IF outcome = "listed"
                             THEN registry \cup {[name |-> item.table, schema |-> plan.name]}
                             ELSE registry
              /\ IF outcome = "raise"
                 THEN /\ raised' = "Exception"
                      /\ apc' = "cleanup"
                      /\ UNCHANGED stepi
                 ELSE /\ stepi' = stepi + 1
                      /\ UNCHANGED <<apc, raised>>
              /\ UNCHANGED mapVars
       ELSE LET hits == RegistryLookup(registry, item.table) IN
            IF hits = {}
            THEN /\ raised' = "IndexError"
                 /\ apc' = "cleanup"
                 /\ UNCHANGED <<stepi, registry, mapVars>>
            ELSE /\ AddMapLayer(item.table, item.layer_id, "red", <<>>, "line")
                 /\ stepi' = stepi + 1
                 /\ UNCHANGED <<apc, raised, registry>>
    /\ UNCHANGED <<plan, slots, db, items, ran, failed_at, schemas, chatVars, schedVars, auxVars>>

ReportDone ==
    /\ apc = "report"
    /\ stepi > Len(items)
    /\ apc' = "cleanup"
    /\ UNCHANGED <<plan, slots, db, registry, items, stepi, ran, failed_at, schemas,
                   raised, chatVars, schedVars, mapVars, auxVars>>

\* the orders in which a set can be iterated
Orders(S) == {f \in [1..Cardinality(S) -> S] : \A i, j \in 1..Cardinality(S) : i # j => f[i] # f[j]}

\* "for table in analysis._final_tables: self.registry[('table', table)][0]._drop(engine)":
\* the tables are dropped one after the other until a lookup finds nothing
RECURSIVE DropFrom(_, _, _)
DropFrom(order, i, d) ==
    IF i > Len(order) THEN [db |-> d, err |-> FALSE]
    ELSE LET hits == RegistryLookup(registry, order[i]) IN
         IF hits = {} THEN [db |-> d, err |-> TRUE]
         ELSE LET t == CHOOSE h \in hits : TRUE IN
              DropFrom(order, i + 1, d \ {Qualified(t.schema, t.name[1])})

\* the finally block of run_analysis
Cleanup ==
    /\ apc = "cleanup"
    /\ IF Len(output_tables(plan)) > 1
       THEN \E order \in Orders(FinalTables(plan, slots)) :
              LET r == DropFrom(order, 1, db) IN
              /\ db' = r.db
              /\ raised' = IF r.err THEN "IndexError" ELSE raised
       ELSE UNCHANGED <<db, raised>>
    /\ apc' = "done"
    /\ UNCHANGED <<plan, slots, registry, items, stepi, ran, failed_at, schemas,
                   chatVars, schedVars, mapVars, auxVars>>

\* the agent while one analysis runs: the GeoAgent of main.py, no client
InitAnalysis ==
    /\ plan \in PlanSet
    /\ apc = "parse"
    /\ slots = <<>>
    /\ db = {Qualified(BaseSchema, t) : t \in BaseTables}
    /\ registry = {Table(t, BaseSchema) : t \in BaseTables}
    /\ items = <<>>
    /\ stepi = 0
    /\ ran = <<>>
    /\ failed_at = 0
    /\ schemas = {}
    /\ raised = None
    /\ AuxIdle
    /\ MapInit
    /\ agentKind = "geo"
    /\ messages = <<InitialDevMessage>>
    /\ lastSys = InitialDevMessage
    /\ emitter = 0
    /\ clients = {}
    /\ pc = [s \in Sessions |-> "closed"]
    /\ turn = [s \in Sessions |-> 0]
    /\ nitems = [s \in Sessions |-> 0]
    /\ idx = [s \in Sessions |-> 0]
    /\ cur = [s \in Sessions |-> NoItem]
    /\ made_calls = [s \in Sessions |-> FALSE]
    /\ result = [s \in Sessions |-> None]
    /\ ret = [s \in Sessions |-> None]
    /\ outbox = [s \in Sessions |-> <<>>]
    /\ nturns = 0
    /\ trace = [s \in Sessions |-> <<>>]
    /\ last = 0
    /\ switches = 0

NextAnalysis ==
    \/ Validate
    \/ CreateSchema
    \/ ExecuteStep
    \/ ExecuteDone
    \/ ReportItem
    \/ ReportDone
    \/ Cleanup

SpecAnalysis == InitAnalysis /\ [][NextAnalysis]_vars

\* _GISAnalysis.execute on its own, on a plan of any step type
InitExecute ==
    /\ plan \in ExecutePlanSet
    /\ apc = "parse"
    /\ slots = <<>>
    /\ db = {Qualified(BaseSchema, t) : t \in BaseTables}
    /\ registry = {Table(t, BaseSchema) : t \in BaseTables}
    /\ items = <<>>
    /\ stepi = 0
    /\ ran = <<>>
    /\ failed_at = 0
    /\ schemas = {}
    /\ raised = None
    /\ AuxIdle
    /\ MapInit
    /\ agentKind = "geo"
    /\ messages = <<InitialDevMessage>>
    /\ lastSys = InitialDevMessage
    /\ emitter = 0
    /\ clients = {}
    /\ pc = [s \in Sessions |-> "closed"]
    /\ turn = [s \in Sessions |-> 0]
    /\ nitems = [s \in Sessions |-> 0]
    /\ idx = [s \in Sessions |-> 0]
    /\ cur = [s \in Sessions |-> NoItem]
    /\ made_calls = [s \in Sessions |-> FALSE]
    /\ result = [s \in Sessions |-> None]
    /\ ret = [s \in Sessions |-> None]
    /\ outbox = [s \in Sessions |-> <<>>]
    /\ nturns = 0
    /\ trace = [s \in Sessions |-> <<>>]
    /\ last = 0
    /\ switches = 0

NextExecute ==
    \/ Validate
    \/ CreateSchema
    \/ ExecuteStep
    \/ ExecuteDone

SpecExecute == InitExecute /\ [][NextExecute]_vars

(***************************************************************************)
(* The map handlers on their own                                           *)
(***************************************************************************)
\* the arguments an add may carry; 'default' is the id under which
\* DashLeafletMapHandler keeps its base layer
LayerIds == {"l1", "default"}
MapTables == {"parcels", "roads"}
Colors == {"red", "blue"}
Styles == {"line"}
\* a list of handler filters, or none
FilterLists == {<<>>, <<[field |-> "id", op |-> "equal", value |-> <<"1">>]>>}

\* everything but the map handler
MapFrame == <<handlerKind, flt, rendered, tables, rop, bstep, storeVars, toolVars, chatVars, schedVars, analysisVars>>

MapAdd ==
    /\ \E layer_id \in LayerIds, table \in MapTables, color \in Colors,
          filters \in FilterLists, style \in Styles :
        /\ AddMapLayer(table, layer_id, color, filters, style)
        /\ mop' = MapOp("add", layer_id, table, color, filters, style,
                        layer_id \in DOMAIN map_layers, FALSE)
    /\ UNCHANGED <<figure, MapFrame>>

MapRemove ==
    /\ \E layer_id \in LayerIds :
        /\ RemoveMapLayer(layer_id)
        /\ mop' = MapOp("remove", layer_id, None, None, <<>>, None,
                        layer_id \in DOMAIN map_layers, RemoveRaises(layer_id))
    /\ UNCHANGED <<figure, MapFrame>>

MapReset ==
    /\ ResetMap
    /\ mop' = MapOp("reset", None, None, None, <<>>, None, DOMAIN map_layers # {}, FALSE)
    /\ UNCHANGED <<figure, MapFrame>>

MapUpdateFigure ==
    /\ UpdateFigure
    /\ mop' = MapOp("update_figure", None, None, None, <<>>, None, FALSE, FALSE)
    /\ UNCHANGED <<mapVars, MapFrame>>

\* either handler, as constructed, with the rest of the program at rest
InitMap ==
    /\ handlerKind \in {"plotly", "leaflet"}
    /\ mop = NoMapOp
    /\ flt = NoFilter
    /\ rendered = NoRendering
    /\ tables = <<>>
    /\ rop = NoRegistryOp
    /\ bstep = NoBufferStep
    /\ StoreIdle
    /\ ToolsIdle
    /\ MapInit
    /\ AnalysisIdle
    /\ agentKind = "geo"
    /\ messages = <<InitialDevMessage>>
    /\ lastSys = InitialDevMessage
    /\ emitter = 0
    /\ clients = {}
    /\ pc = [s \in Sessions |-> "closed"]
    /\ turn = [s \in Sessions |-> 0]
    /\ nitems = [s \in Sessions |-> 0]
    /\ idx = [s \in Sessions |-> 0]
    /\ cur = [s \in Sessions |-> NoItem]
    /\ made_calls = [s \in Sessions |-> FALSE]
    /\ result = [s \in Sessions |-> None]
    /\ ret = [s \in Sessions |-> None]
    /\ outbox = [s \in Sessions |-> <<>>]
    /\ nturns = 0
    /\ trace = [s \in Sessions |-> <<>>]
    /\ last = 0
    /\ switches = 0

NextMap ==
    \/ MapAdd
    \/ MapRemove
    \/ MapReset
    \/ MapUpdateFigure

SpecMap == InitMap /\ [][NextMap]_vars

(***************************************************************************)
(* Handler filters (GeoFilter) and the quoting of the analysis filter step *)
(* Strings are sequences of characters; a field name or an operator is one *)
(* token of the sequence.                                                  *)
(***************************************************************************)
\* longest string value, longest text of a row
MaxValLen == 2
MaxRowLen == 2

\* the characters of values: a letter, the regular-expression wildcard, the
\* quote and the LIKE wildcard
Chars == {"a", ".", "'", "%"}

Strings(n) == UNION {[1..k -> Chars] : k \in 0..n}

\* op: Literal[...] of GeoFilter
FilterOps == {"equal", "greaterThan", "lessThan", "greaterThanOrEqual",
              "lessThanOrEqual", "notEqual", "contains"}

\* a GeoFilter: the value is its text (str(value) for a number or a bool)
\* with its Python type
GeoFilter(field, op, type, value) ==
    [field |-> field, op |-> op, value |-> value, type |-> type]

FilterSet ==
    {GeoFilter("f", op, "str", v) : op \in FilterOps, v \in Strings(MaxValLen)}
    \cup {GeoFilter("f", op, "int", <<n>>) : op \in FilterOps, n \in {"0", "1"}}
    \cup {GeoFilter("f", op, "bool", <<b>>) : op \in FilterOps, b \in {"True", "False"}}

\* value.replace("'", "''")
RECURSIVE Escape(_)
Escape(v) ==
    IF v = <<>> THEN <<>>
    ELSE (IF Head(v) = "'" THEN <<"'", "'">> ELSE <<Head(v)>>) \o Escape(Tail(v))

\* f"'{esc}'"
Quoted(v) == <<"'">> \o Escape(v) \o <<"'">>

\* op_mapping of _to_cql and of _to_sql
CqlOp(op) ==
    CASE op = "equal" -> "="
      [] op = "greaterThan" -> ">"
      [] op = "lessThan" -> "<"
      [] op = "greaterThanOrEqual" -> ">="
      [] op = "lessThanOrEqual" -> "<="
      [] op = "notEqual" -> "<>"
      [] op = "contains" -> "LIKE"

SqlOp(op) ==
    CASE op = "equal" -> "="
      [] op = "greaterThan" -> ">"
      [] op = "lessThan" -> "<"
      [] op = "greaterThanOrEqual" -> ">="
      [] op = "lessThanOrEqual" -> "<="
      [] op = "notEqual" -> "!="
      [] op = "contains" -> "~"

\* urllib.parse.quote(expr, safe=""): the reserved characters of the model
\* become their escapes, a token that has none stays
PercentEncode(c) ==
    CASE c = "'" -> "%27"
      [] c = "%" -> "%25"
      [] c = " " -> "%20"
      [] OTHER -> c

PercentDecode(c) ==
    CASE c = "%27" -> "'"
      [] c = "%25" -> "%"
      [] c = "%20" -> " "
      [] OTHER -> c

UrlQuote(expr) == [i \in 1..Len(expr) |-> PercentEncode(expr[i])]
UrlUnquote(expr) == [i \in 1..Len(expr) |-> PercentDecode(expr[i])]

\* the literal of _to_cql: contains wraps the value in % first, which makes
\* it a str whatever it was
CqlLiteral(f) ==
    LET value == IF f.op = "contains" THEN <<"%">> \o f.value \o <<"%">> ELSE f.value IN
    IF f.type = "str" \/ f.op = "contains" THEN Quoted(value)
    ELSE IF f.type = "bool" THEN (IF f.value = <<"True">> THEN <<"true">> ELSE <<"false">>)
    ELSE value

\* _to_cql: quote(f"{field} {cql_op} {literal}", safe="")
ToCql(f) == UrlQuote(<<f.field, " ", CqlOp(f.op), " ">> \o CqlLiteral(f))

\* the literal of _to_sql
SqlLiteral(f) ==
    IF f.type = "str" THEN Quoted(f.value)
    ELSE IF f.type = "bool" THEN (IF f.value = <<"True">> THEN <<"TRUE">> ELSE <<"FALSE">>)
    ELSE f.value

\* _to_sql: f'"{field}" {sql_op} {literal}'
ToSql(f) == <<"\"", f.field, "\"", " ", SqlOp(f.op), " ">> \o SqlLiteral(f)

\* _FilterStep._execute: f.value = f"'{f.value}'" for a str value
StepQuote(f) == IF f.type = "str" THEN <<"'">> \o f.value \o <<"'">> ELSE f.value

\* the three renderings of a filter
Rendering(f) == [done |-> TRUE, sql |-> ToSql(f), cql |-> ToCql(f), step |-> StepQuote(f)]

\* everything but the filter and its renderings
FilterFrame == <<handlerKind, figure, mop, tables, rop, bstep, storeVars, toolVars,
                 chatVars, schedVars, mapVars, analysisVars>>

\* _to_sql, _to_cql and the step's quoting applied to the filter
Render ==
    /\ ~rendered.done
    /\ rendered' = Rendering(flt)
    /\ UNCHANGED <<flt, FilterFrame>>

\* any filter, not yet rendered, with the rest of the program at rest
InitFilter ==
    /\ flt \in FilterSet
    /\ rendered = NoRendering
    /\ handlerKind = "plotly"
    /\ mop = NoMapOp
    /\ tables = <<>>
    /\ rop = NoRegistryOp
    /\ bstep = NoBufferStep
    /\ StoreIdle
    /\ ToolsIdle
    /\ MapInit
    /\ AnalysisIdle
    /\ agentKind = "geo"
    /\ messages = <<InitialDevMessage>>
    /\ lastSys = InitialDevMessage
    /\ emitter = 0
    /\ clients = {}
    /\ pc = [s \in Sessions |-> "closed"]
    /\ turn = [s \in Sessions |-> 0]
    /\ nitems = [s \in Sessions |-> 0]
    /\ idx = [s \in Sessions |-> 0]
    /\ cur = [s \in Sessions |-> NoItem]
    /\ made_calls = [s \in Sessions |-> FALSE]
    /\ result = [s \in Sessions |-> None]
    /\ ret = [s \in Sessions |-> None]
    /\ outbox = [s \in Sessions |-> <<>>]
    /\ nturns = 0
    /\ trace = [s \in Sessions |-> <<>>]
    /\ last = 0
    /\ switches = 0

NextFilter == Render

SpecFilter == InitFilter /\ [][NextFilter]_vars

(***************************************************************************)
(* The table registry on its own: query, register, unregister and          *)
(* verify_fields                                                           *)
(***************************************************************************)
\* most tables of a registry and of a tile-server index, most pairs of a
\* query, most proposed fields
MaxTables == 2
MaxConds == 2
MaxFields == 2

RegNames == {"parcels", "roads"}
RegSchemas == {BaseSchema, "run1"}
\* the columns the tile server reports for a table
ColumnsOf(name) == IF name = "parcels" THEN <<"BBL", "zip">> ELSE <<"bbl", "zip">>
\* the names a field can be proposed under
FieldNames == {"bbl", "zip", "foo"}
AnalysisNames == {"run1"}

\* str.lower
Lower(c) == IF c = "BBL" THEN "bbl" ELSE c

\* the Table built from an entry of the tile-server index, under its key
RegisteredTable(name, schema) ==
    [id |-> Qualified(schema, name), name |-> name, schema |-> schema,
     columns |-> ColumnsOf(name)]

Range(sq) == {sq[i] : i \in 1..Len(sq)}
Injective(sq) == \A i, j \in 1..Len(sq) : i # j => sq[i] # sq[j]
SeqsUpTo(S, n) == UNION {[1..k -> S] : k \in 0..n}

\* the contents of a dict keyed by table id: no key twice
TableSeqs ==
    {sq \in SeqsUpTo({RegisteredTable(n, sc) : n \in RegNames, sc \in RegSchemas}, MaxTables) :
        \A i, j \in 1..Len(sq) : i # j => sq[i].id # sq[j].id}

\* lists of field names
FieldLists == {sq \in SeqsUpTo(FieldNames, MaxFields) : Injective(sq)}

\* the (kind, value) pairs of a query; a value is a string (Name) or a list
Pairs ==
    {[kind |-> "schema", val |-> Name(sc)] : sc \in RegSchemas}
        \cup {[kind |-> "table", val |-> Name(n)] : n \in RegNames}
        \cup {[kind |-> "analysis", val |-> Name(a)] : a \in AnalysisNames}
        \cup {[kind |-> "fields", val |-> fl] : fl \in FieldLists}
CondSeqs == SeqsUpTo(Pairs, MaxConds) \ {<<>>}

\* Table.filter: a copy with the columns that are among the fields
TableFilter(t, fields) ==
    [t EXCEPT !.columns = SelectSeq(t.columns, LAMBDA col : col \in Range(fields))]

RECURSIVE MapFilter(_, _)
MapFilter(cands, fields) ==
    IF cands = <<>> THEN <<>>
    ELSE <<TableFilter(Head(cands), fields)>> \o MapFilter(Tail(cands), fields)

\* TableRegistry.__getitem__, the loop over the conditions
RECURSIVE ApplyConds(_, _)
ApplyConds(candidates, conds) ==
    IF conds = <<>> THEN [raised |-> None, result |-> candidates]
    ELSE LET kind == Head(conds).kind
             val == Head(conds).val IN
         CASE kind = "schema" ->
                ApplyConds(SelectSeq(candidates, LAMBDA t : Name(t.schema) = val), Tail(conds))
           [] kind = "table" ->
                ApplyConds(SelectSeq(candidates, LAMBDA t : Name(t.name) = val), Tail(conds))
           [] kind = "analysis" ->
                \* Table has no attribute analysis: the first candidate read raises
                IF candidates = <<>> THEN ApplyConds(<<>>, Tail(conds))
                ELSE [raised |-> "AttributeError", result |-> <<>>]
           [] kind = "fields" ->
                ApplyConds(SelectSeq(MapFilter(candidates, val), LAMBDA t : t.columns # <<>>),
                           Tail(conds))

GetItem(tabs, conds) == ApplyConds(tabs, conds)

\* self.tables[id_] = table: in place when the key is there, at the end otherwise
Store(tabs, t) ==
    IF \E i \in 1..Len(tabs) : tabs[i].id = t.id
    THEN [i \in 1..Len(tabs) |-> IF tabs[i].id = t.id THEN t ELSE tabs[i]]
    ELSE Append(tabs, t)

\* the loop of register over the index
RECURSIVE StoreNamed(_, _, _)
StoreNamed(tabs, name, index) ==
    IF index = <<>> THEN tabs
    ELSE StoreNamed(IF Head(index).name = name THEN Store(tabs, Head(index)) ELSE tabs,
                    name, Tail(index))

\* TableRegistry.register: "return self.tables[id_]" reads the key the loop ended on
Register(tabs, name, index) ==
    LET stored == StoreNamed(tabs, name, index) IN
    IF index = <<>>
    THEN [tables |-> stored, raised |-> "UnboundLocalError", result |-> None]
    ELSE LET id_ == index[Len(index)].id
             hits == SelectSeq(stored, LAMBDA t : t.id = id_) IN
         IF hits = <<>>
         THEN [tables |-> stored, raised |-> "KeyError", result |-> None]
         ELSE [tables |-> stored, raised |-> None, result |-> hits[1]]

\* TableRegistry.unregister: the first table of that name is dropped and deleted
Unregister(tabs, name) ==
    LET hits == {i \in 1..Len(tabs) : tabs[i].name = name} IN
    IF hits = {} THEN [tables |-> tabs, dropped |-> {}]
    ELSE LET i == CHOOSE h \in hits : \A g \in hits : h <= g IN
         [tables |-> SubSeq(tabs, 1, i - 1) \o SubSeq(tabs, i + 1, Len(tabs)),
          dropped |-> {tabs[i].id}]

\* a proposed field: its name and the rest of its definition
FieldResult(name) == [name |-> name, info |-> name]

RECURSIVE FieldResults(_)
FieldResults(names) ==
    IF names = <<>> THEN <<>>
    ELSE <<FieldResult(Head(names))>> \o FieldResults(Tail(names))

\* the inner loop of verify_fields: the proposed fields that match the column
RECURSIVE ColumnMatches(_, _)
ColumnMatches(column, field_results) ==
    IF field_results = <<>> THEN <<>>
    ELSE (IF Lower(column) = Lower(Head(field_results).name)
          THEN <<[Head(field_results) EXCEPT !.name = column]>>
          ELSE <<>>) \o ColumnMatches(column, Tail(field_results))

RECURSIVE TableMatches(_, _)
TableMatches(columns, field_results) ==
    IF columns = <<>> THEN <<>>
    ELSE ColumnMatches(Head(columns), field_results)
            \o TableMatches(Tail(columns), field_results)

\* TableRegistry.verify_fields
RECURSIVE VerifyFields(_, _)
VerifyFields(tabs, field_results) ==
    IF tabs = <<>> THEN <<>>
    ELSE TableMatches(Head(tabs).columns, field_results)
            \o VerifyFields(Tail(tabs), field_results)

\* TableRegistry.cleanup: "for temp_id in self.temp_tables", an attribute the
\* class never sets, so the loop is not entered
RegistryCleanup(tabs) ==
    [tables |-> tabs, dropped |-> {}, raised |-> "AttributeError"]

\* what discovering one table of the index can come to: the detail document
\* and the probe answer, the detail request fails, the probe raises
\* ProgrammingError (caught: geometry_type is "NotFound"), the probe raises
\* another error
DiscoveryOutcomes == {"ok", "detail", "ProgrammingError", "OperationalError"}

\* TableRegistry.load_from_tileserv, the k-th table of the index (none when
\* k = 0) coming to the outcome: the tables the loop stored, and the
\* exception that left it, if any
LoadFromTileserv(index, k, outcome) ==
    IF k # 0 /\ outcome \in {"detail", "OperationalError"}
    THEN [raised |-> outcome, tables |-> SubSeq(index, 1, k - 1), notfound |-> {}]
    ELSE [raised |-> None, tables |-> index,
          notfound |-> IF k # 0 /\ outcome = "ProgrammingError" THEN {index[k].id} ELSE {}]

\* everything but the registry, the database and the operation called last
RegistryFrame ==
    <<handlerKind, figure, mop, flt, rendered, bstep, storeVars, toolVars,
      chatVars, schedVars, mapVars, plan, apc, slots, registry, items, stepi, ran, failed_at, schemas, raised>>

\* registry[conds]
RegQuery ==
    /\ rop.op = None
    /\ \E conds \in CondSeqs :
         LET r == GetItem(tables, conds) IN
         rop' = [op |-> "query", conds |-> conds, before |-> tables,
                 raised |-> r.raised, result |-> r.result]
    /\ UNCHANGED <<tables, db, RegistryFrame>>

\* registry.register(name), the tile server answering with an index
RegRegister ==
    /\ rop.op = None
    /\ \E name \in RegNames, index \in TableSeqs :
         LET r == Register(tables, name, index) IN
         /\ tables' = r.tables
         /\ rop' = [op |-> "register", name |-> name, index |-> index, before |-> tables,
                    raised |-> r.raised, result |-> r.result]
    /\ UNCHANGED <<db, RegistryFrame>>

\* registry.unregister(name), as the first operation or after a register
RegUnregister ==
    /\ rop.op \in {None, "register"}
    /\ \E name \in RegNames :
         LET r == Unregister(tables, name) IN
         /\ tables' = r.tables
         /\ db' = db \ r.dropped
         /\ rop' = [op |-> "unregister", name |-> name, before |-> tables,
                    registered |-> IF rop.op = "register" THEN {rop.name} ELSE {},
                    origin |-> IF rop.op = "register" THEN rop.before ELSE tables]
    /\ UNCHANGED RegistryFrame

\* registry.verify_fields(field_defs)
RegVerifyFields ==
    /\ rop.op = None
    /\ \E names \in FieldLists :
         rop' = [op |-> "verify_fields", proposed |-> FieldResults(names), before |-> tables,
                 result |-> VerifyFields(tables, FieldResults(names))]
    /\ UNCHANGED <<tables, db, RegistryFrame>>

\* registry.cleanup(engine), the finally block of __main__
RegCleanup ==
    /\ rop.op = None
    /\ LET r == RegistryCleanup(tables) IN
       /\ tables' = r.tables
       /\ db' = db \ r.dropped
       /\ rop' = [op |-> "cleanup", before |-> tables, raised |-> r.raised]
    /\ UNCHANGED RegistryFrame

\* self.registry = TableRegistry.load_from_tileserv(engine): the registry is
\* replaced when the call returns, kept when it raises
RegLoad ==
    /\ rop.op = None
    /\ \E index \in TableSeqs, outcome \in DiscoveryOutcomes :
         \E k \in (IF outcome = "ok" THEN {0} ELSE 1..Len(index)) :
            LET r == LoadFromTileserv(index, k, outcome) IN
            /\ tables' = IF r.raised = None THEN r.tables ELSE tables
            /\ rop' = [op |-> "load", index |-> index, failing |-> k, outcome |-> outcome,
                       before |-> tables, raised |-> r.raised, notfound |-> r.notfound]
    /\ UNCHANGED <<db, RegistryFrame>>

\* any registry the tile server can have filled, the tables being in the database
InitRegistry ==
    /\ tables \in TableSeqs
    /\ rop = NoRegistryOp
    /\ db = {tables[i].id : i \in 1..Len(tables)}
    /\ plan = NoPlan
    /\ apc = "off"
    /\ slots = <<>>
    /\ registry = {Table(t, BaseSchema) : t \in BaseTables}
    /\ items = <<>>
    /\ stepi = 0
    /\ ran = <<>>
    /\ failed_at = 0
    /\ schemas = {}
    /\ raised = None
    /\ handlerKind = "plotly"
    /\ mop = NoMapOp
    /\ flt = NoFilter
    /\ rendered = NoRendering
    /\ bstep = NoBufferStep
    /\ StoreIdle
    /\ ToolsIdle
    /\ MapInit
    /\ agentKind = "geo"
    /\ messages = <<InitialDevMessage>>
    /\ lastSys = InitialDevMessage
    /\ emitter = 0
    /\ clients = {}
    /\ pc = [s \in Sessions |-> "closed"]
    /\ turn = [s \in Sessions |-> 0]
    /\ nitems = [s \in Sessions |-> 0]
    /\ idx = [s \in Sessions |-> 0]
    /\ cur = [s \in Sessions |-> NoItem]
    /\ made_calls = [s \in Sessions |-> FALSE]
    /\ result = [s \in Sessions |-> None]
    /\ ret = [s \in Sessions |-> None]
    /\ outbox = [s \in Sessions |-> <<>>]
    /\ nturns = 0
    /\ trace = [s \in Sessions |-> <<>>]
    /\ last = 0
    /\ switches = 0

NextRegistry ==
    \/ RegQuery
    \/ RegRegister
    \/ RegUnregister
    \/ RegVerifyFields
    \/ RegCleanup
    \/ RegLoad

SpecRegistry == InitRegistry /\ [][NextRegistry]_vars

(***************************************************************************)
(* A _BufferStep from the LLM's answer to the SQL                          *)
(***************************************************************************)
\* buffer_distance: float, and the strings the LLM may give as buffer_unit
Distances == {0 - 1, 0, 1}
BufferUnits == {"meters", "kilometers", "miles"}

\* a _BufferStep as the LLM writes it
BufferStep(out, src, distance, unit) ==
    [output_table |-> out, source_table |-> src, buffer_distance |-> distance,
     buffer_unit |-> unit]

BufferStepSet ==
    {BufferStep(o, sl, d, u) : o \in OutNames, sl \in SlotSet, d \in Distances, u \in BufferUnits}

\* the field validation of the model: buffer_unit is a Literal, buffer_distance
\* a float with no constraint
BufferFieldsValid(step) == step.buffer_unit \in {"meters", "kilometers"}

\* everything but the buffer step
BufferFrame ==
    <<handlerKind, figure, mop, flt, rendered, tables, rop, storeVars, toolVars,
      chatVars, schedVars, mapVars, analysisVars>>

\* responses.parse builds the step model from the LLM's answer
BufferValidate ==
    /\ bstep.status = "proposed"
    /\ bstep' = [bstep EXCEPT !.status = IF BufferFieldsValid(bstep.step)
                                         THEN "validated" ELSE "ValidationError"]
    /\ UNCHANGED BufferFrame

\* _SQLStep._execute renders the template with the fields of the step and runs it
BufferExecute ==
    /\ bstep.status = "validated"
    /\ bstep' = [bstep EXCEPT !.status = "executed"]
    /\ UNCHANGED BufferFrame

InitBuffer ==
    /\ bstep \in {[status |-> "proposed", step |-> st] : st \in BufferStepSet}
    /\ handlerKind = "plotly"
    /\ mop = NoMapOp
    /\ flt = NoFilter
    /\ rendered = NoRendering
    /\ tables = <<>>
    /\ rop = NoRegistryOp
    /\ StoreIdle
    /\ ToolsIdle
    /\ MapInit
    /\ AnalysisIdle
    /\ agentKind = "geo"
    /\ messages = <<InitialDevMessage>>
    /\ lastSys = InitialDevMessage
    /\ emitter = 0
    /\ clients = {}
    /\ pc = [s \in Sessions |-> "closed"]
    /\ turn = [s \in Sessions |-> 0]
    /\ nitems = [s \in Sessions |-> 0]
    /\ idx = [s \in Sessions |-> 0]
    /\ cur = [s \in Sessions |-> NoItem]
    /\ made_calls = [s \in Sessions |-> FALSE]
    /\ result = [s \in Sessions |-> None]
    /\ ret = [s \in Sessions |-> None]
    /\ outbox = [s \in Sessions |-> <<>>]
    /\ nturns = 0
    /\ trace = [s \in Sessions |-> <<>>]
    /\ last = 0
    /\ switches = 0

NextBuffer ==
    \/ BufferValidate
    \/ BufferExecute

SpecBuffer == InitBuffer /\ [][NextBuffer]_vars

(***************************************************************************)
(* A DocumentStore: add, restart of the process, smart_query               *)
(***************************************************************************)
\* most field definitions parsed from one PDF, most vectors of the index,
\* most terms of a smart query, and the k of a search (5 in query(); the
\* search pads with the id -1 when the index holds fewer than k vectors)
MaxDocs == 2
MaxVectors == 4
MaxTerms == 2
TopK == 2
\* most vectors of the index a smart query searches
MaxIndexed == 3

\* PYTHONHASHSEED of a process (chosen at random when the process starts)
Seeds == {1, 2}
StoreTables == {"parcels"}
PdfNames == {"dict.pdf", "notes.pdf"}
\* the name of the definition of that ordinal the parsing model finds in a PDF:
\* no name twice in a PDF, the same fields in both
FieldNameAt(source, ord) ==
    CASE ord = 0 -> IF source = "dict.pdf" THEN "bbl" ELSE "zip"
      [] ord = 1 -> IF source = "dict.pdf" THEN "zip" ELSE "bbl"
      [] OTHER -> "lot"

\* hash(table + pdf_path.name + str(idx)): hash of a str depends on the seed
\* of the process
Hash(sd, table, source, ord) == <<sd, table, source, ord>>
NoId == <<>>

\* the documents add_pdf builds from the n definitions parsed from the PDF
PdfDoc(sd, table, source, ord) ==
    [id |-> Hash(sd, table, source, ord), table |-> table, source |-> source,
     name |-> FieldNameAt(source, ord)]
PdfDocs(sd, table, source, n) == [i \in 1..n |-> PdfDoc(sd, table, source, i - 1)]

Ids(docs) == [i \in 1..Len(docs) |-> docs[i].id]

\* "for doc_id, doc in zip(ids, documents): self.documents[doc_id] = meta"
RECURSIVE UpdateDocuments(_, _)
UpdateDocuments(map, docs) ==
    IF docs = <<>> THEN map
    ELSE UpdateDocuments(Put(map, Head(docs).id, Head(docs)), Tail(docs))

RECURSIVE Pending(_)
Pending(S) ==
    IF S = {} THEN 0
    ELSE LET s == CHOOSE x \in S : TRUE IN Len(adding[s]) + Pending(S \ {s})

\* everything but the store
StoreFrame ==
    <<handlerKind, figure, mop, flt, rendered, tables, rop, bstep, toolVars,
      chatVars, schedVars, mapVars, analysisVars>>

\* add_pdf up to "await self._client.embeddings.create" in add
StoreAddBegin(s) ==
    /\ adding[s] = <<>>
    /\ \E table \in StoreTables, source \in PdfNames, n \in 1..MaxDocs :
         /\ Len(store_index) + Pending(Sessions) + n <= MaxVectors
         /\ adding' = [adding EXCEPT ![s] = PdfDocs(seed, table, source, n)]
    /\ UNCHANGED <<store_index, documents, index_file, docs_file, seed, sop, smart, StoreFrame>>

\* the embeddings call raises: add is left before it changed anything
StoreAddFail(s) ==
    /\ adding[s] # <<>>
    /\ adding' = [adding EXCEPT ![s] = <<>>]
    /\ UNCHANGED <<store_index, documents, index_file, docs_file, seed, sop, smart, StoreFrame>>

\* an add that puts the vectors into the index and forgets the document map
StoreAddCompleteIndexOnly(s) ==
    /\ adding[s] # <<>>
    /\ store_index' = store_index \o Ids(adding[s])
    /\ index_file' = store_index'
    /\ docs_file' = documents
    /\ adding' = [adding EXCEPT ![s] = <<>>]
    /\ sop' = [op |-> "add", ids |-> Ids(adding[s]),
               overlapped |-> \E o \in Sessions \ {s} : adding[o] # <<>>]
    /\ UNCHANGED <<documents, seed, smart, StoreFrame>>

\* the rest of add, without an await: add_with_ids, the document map, _export
StoreAddComplete(s) ==
    /\ adding[s] # <<>>
    /\ store_index' = store_index \o Ids(adding[s])
    /\ documents' = UpdateDocuments(documents, adding[s])
    /\ index_file' = store_index'
    /\ docs_file' = documents'
    /\ adding' = [adding EXCEPT ![s] = <<>>]
    /\ sop' = [op |-> "add", ids |-> Ids(adding[s]),
               overlapped |-> \E o \in Sessions \ {s} : adding[o] # <<>>]
    /\ UNCHANGED <<seed, smart, StoreFrame>>

\* the process ends and starts again: __init__ reads index.bin and documents.json
StoreRestart ==
    /\ seed' \in Seeds
    /\ store_index' = index_file
    /\ documents' = docs_file
    /\ adding' = [s \in Sessions |-> <<>>]
    /\ sop' = [op |-> "restart"]
    /\ UNCHANGED <<index_file, docs_file, smart, StoreFrame>>

\* the document query() returns for a hit of the search
ResultDoc(id) ==
    [id |-> id, name |-> IF id \in DOMAIN documents THEN documents[id].name ELSE None]

\* query(term): the k nearest vectors in some order of distance, -1 where the
\* index has fewer than k
QueryResults ==
    LET n == IF Len(store_index) < TopK THEN Len(store_index) ELSE TopK IN
    {[i \in 1..TopK |-> IF i <= n THEN ResultDoc(store_index[pos[i]]) ELSE ResultDoc(NoId)] :
        pos \in {f \in [1..n -> 1..Len(store_index)] : Injective(f)}}

\* a loop that appends every result, seen before or not
MergeResultsNoDedupe(total_results, term_results) ==
    IF \E i \in 1..Len(term_results) : term_results[i].name = None
    THEN [raised |-> "KeyError", total |-> total_results]
    ELSE [raised |-> None, total |-> total_results \o term_results]

\* the inner loop of smart_query over the results of one term
RECURSIVE MergeResults(_, _)
MergeResults(total_results, term_results) ==
    IF term_results = <<>> THEN [raised |-> None, total |-> total_results]
    ELSE LET res == Head(term_results) IN
         IF res.name = None
         THEN [raised |-> "KeyError", total |-> total_results]
         ELSE MergeResults(IF \E i \in 1..Len(total_results) : total_results[i].name = res.name
                           THEN total_results
                           ELSE Append(total_results, res),
                           Tail(term_results))

\* smart_query up to the loop: the LLM returns the terms
SmartQueryBegin ==
    /\ smart.status = None
    /\ \E n \in 1..MaxTerms :
         smart' = [status |-> "querying", left |-> n, last |-> <<>>, before |-> <<>>,
                   total |-> <<>>]
    /\ UNCHANGED <<store_index, documents, index_file, docs_file, adding, seed, sop, StoreFrame>>

\* one iteration of "for term in terms"
SmartQueryTerm ==
    /\ smart.status = "querying"
    /\ smart.left > 0
    /\ \E term_results \in QueryResults :
         LET r == MergeResults(smart.total, term_results) IN
         smart' = [status |-> IF r.raised = None THEN "querying" ELSE "raised",
                   left |-> smart.left - 1, last |-> term_results, before |-> smart.total,
                   total |-> r.total]
    /\ UNCHANGED <<store_index, documents, index_file, docs_file, adding, seed, sop, StoreFrame>>

\* return total_results
SmartQueryReturn ==
    /\ smart.status = "querying"
    /\ smart.left = 0
    /\ smart' = [smart EXCEPT !.status = "returned"]
    /\ UNCHANGED <<store_index, documents, index_file, docs_file, adding, seed, sop, StoreFrame>>

InitStore ==
    /\ StoreIdle
    /\ handlerKind = "plotly"
    /\ mop = NoMapOp
    /\ flt = NoFilter
    /\ rendered = NoRendering
    /\ tables = <<>>
    /\ rop = NoRegistryOp
    /\ bstep = NoBufferStep
    /\ ToolsIdle
    /\ MapInit
    /\ AnalysisIdle
    /\ agentKind = "geo"
    /\ messages = <<InitialDevMessage>>
    /\ lastSys = InitialDevMessage
    /\ emitter = 0
    /\ clients = {}
    /\ pc = [s \in Sessions |-> "closed"]
    /\ turn = [s \in Sessions |-> 0]
    /\ nitems = [s \in Sessions |-> 0]
    /\ idx = [s \in Sessions |-> 0]
    /\ cur = [s \in Sessions |-> NoItem]
    /\ made_calls = [s \in Sessions |-> FALSE]
    /\ result = [s \in Sessions |-> None]
    /\ ret = [s \in Sessions |-> None]
    /\ outbox = [s \in Sessions |-> <<>>]
    /\ nturns = 0
    /\ trace = [s \in Sessions |-> <<>>]
    /\ last = 0
    /\ switches = 0

NextStore ==
    \/ \E s \in Sessions : StoreAddBegin(s)
    \/ \E s \in Sessions : StoreAddFail(s)
    \/ \E s \in Sessions : StoreAddComplete(s)
    \/ StoreRestart

SpecStore == InitStore /\ [][NextStore]_vars

\* documents one process can have ingested: the first two of each PDF
Ingestible ==
    {PdfDoc(1, table, source, ord) :
        table \in StoreTables, source \in PdfNames, ord \in {0, 1}}

\* a store as adds leave it, whatever they were: the vectors in some order,
\* an id perhaps more than once, and the document of every id
InitSmart ==
    /\ \E docs \in SeqsUpTo(Ingestible, MaxIndexed) :
         /\ store_index = Ids(docs)
         /\ documents = UpdateDocuments(EmptyMap, docs)
    /\ index_file = store_index
    /\ docs_file = documents
    /\ adding = [s \in Sessions |-> <<>>]
    /\ seed = 1
    /\ sop = NoStoreOp
    /\ smart = NoSmartQuery
    /\ handlerKind = "plotly"
    /\ mop = NoMapOp
    /\ flt = NoFilter
    /\ rendered = NoRendering
    /\ tables = <<>>
    /\ rop = NoRegistryOp
    /\ bstep = NoBufferStep
    /\ ToolsIdle
    /\ MapInit
    /\ AnalysisIdle
    /\ agentKind = "geo"
    /\ messages = <<InitialDevMessage>>
    /\ lastSys = InitialDevMessage
    /\ emitter = 0
    /\ clients = {}
    /\ pc = [s \in Sessions |-> "closed"]
    /\ turn = [s \in Sessions |-> 0]
    /\ nitems = [s \in Sessions |-> 0]
    /\ idx = [s \in Sessions |-> 0]
    /\ cur = [s \in Sessions |-> NoItem]
    /\ made_calls = [s \in Sessions |-> FALSE]
    /\ result = [s \in Sessions |-> None]
    /\ ret = [s \in Sessions |-> None]
    /\ outbox = [s \in Sessions |-> <<>>]
    /\ nturns = 0
    /\ trace = [s \in Sessions |-> <<>>]
    /\ last = 0
    /\ switches = 0

NextSmart ==
    \/ SmartQueryBegin
    \/ SmartQueryTerm
    \/ SmartQueryReturn

SpecSmart == InitSmart /\ [][NextSmart]_vars

(***************************************************************************)
(* The tool schemas of a turn: BaseAgent._build_tool_defs, tools.py        *)
(***************************************************************************)
\* most parameters a tool declares
MaxParams == 2

\* the names @tool_type registered in BaseAgent._tool_type_registry, and the
\* names a "#<name>" marker can carry (nothing checks a marker's name)
TypeRegistry == {"region", "style"}
MarkerNames == TypeRegistry \cup {"shape"}

\* a "type" string, as the characters the code looks at: "#" + name
Marker(name) == <<"#", name>>
\* s["type"].startswith("#")
IsMarker(type) == type # <<>> /\ Head(type) = "#"
\* s["type"][1:]
RefName(type) == type[2]
\* f"#/definitions/{ref_name}"
Ref(name) == <<"#/definitions/", name>>
NoRef == <<>>

\* an "enum" entry: none, a callable of the agent, or a list of values
NoEnum == [kind |-> "none", values |-> {}]
CallableEnum == [kind |-> "callable", values |-> {}]
ListEnum(values) == [kind |-> "list", values |-> values]
\* s["enum"](self): the callable returns the layers the agent has now
CallEnum(state) == ListEnum(state)

\* a parameter as @tool(params=...) declares it; items of type <<>> when the
\* parameter has no "items" dict
NoItems == [type |-> <<>>, enum |-> NoEnum]
ParamSpec(type, enum, item) == [type |-> type, enum |-> enum, items |-> item]
ParamSpecs ==
    {ParamSpec(<<"string">>, e, NoItems) : e \in {NoEnum, CallableEnum, ListEnum({"l1"})}}
    \cup {ParamSpec(Marker(n), NoEnum, NoItems) : n \in MarkerNames}
    \cup {ParamSpec(<<"array">>, NoEnum, [type |-> <<"string">>, enum |-> e]) :
              e \in {NoEnum, CallableEnum}}
    \cup {ParamSpec(<<"array">>, NoEnum, [type |-> Marker(n), enum |-> NoEnum]) :
              n \in MarkerNames}

\* a property of the synthesized schema
NoItemsOut == [ref |-> NoRef, type |-> <<>>, enum |-> NoEnum]
RefProperty(name) ==
    [ref |-> Ref(name), type |-> <<>>, enum |-> NoEnum, items |-> NoItemsOut]

\* props[pname] for one declared parameter
BuildProperty(spec, state) ==
    LET enum == IF spec.enum.kind = "callable" THEN CallEnum(state) ELSE spec.enum
        item == spec.items IN
    IF IsMarker(spec.type) THEN RefProperty(RefName(spec.type))
    ELSE IF spec.type = <<"array">> /\ item.type # <<>>
    THEN [ref |-> NoRef, type |-> spec.type, enum |-> enum,
          items |-> IF IsMarker(item.type)
                    THEN [ref |-> Ref(RefName(item.type)), type |-> <<>>, enum |-> NoEnum]
                    ELSE IF item.type = <<"string">> /\ item.enum.kind = "callable"
                    THEN [ref |-> NoRef, type |-> item.type, enum |-> CallEnum(state)]
                    ELSE [ref |-> NoRef, type |-> item.type, enum |-> item.enum]]
    ELSE [ref |-> NoRef, type |-> spec.type, enum |-> enum,
          items |-> [ref |-> NoRef, type |-> item.type, enum |-> item.enum]]

\* the declared parameter after the synthesis: s is spec.copy(), a shallow
\* copy, so s['items'] is the declared items dict and
\* s['items']["enum"] = item["enum"](self) writes into the declaration
SpecAfterBuild(spec, state) ==
    IF /\ ~IsMarker(spec.type)
       /\ spec.type = <<"array">>
       /\ spec.items.type = <<"string">>
       /\ spec.items.enum.kind = "callable"
    THEN [spec EXCEPT !.items.enum = CallEnum(state)]
    ELSE spec

\* used_defs of a tool
UsedDefs(params) ==
    {RefName(params[i].type) : i \in {k \in DOMAIN params : IsMarker(params[k].type)}}
    \cup {RefName(params[i].items.type) :
              i \in {k \in DOMAIN params :
                        /\ ~IsMarker(params[k].type)
                        /\ params[k].type = <<"array">>
                        /\ IsMarker(params[k].items.type)}}

\* definitions[type_name] as step 1 builds it from the builder of the type
Definition(name) == [type |-> "object", properties |-> name]

\* a definitions map that carries every registered type
DefinitionsOfRegistry(used_defs) ==
    [name \in TypeRegistry |-> Definition(name)]

\* parameters["definitions"]
Definitions(used_defs) ==
    [name \in {n \in used_defs : n \in TypeRegistry} |-> Definition(name)]

\* the "layer_id" property of _build_remove_layer_def
BuildRemoveLayerDef(layers) ==
    [ref |-> NoRef, type |-> <<"string">>, enum |-> ListEnum(layers), items |-> NoItemsOut]

\* everything but the tools
ToolsFrame ==
    <<handlerKind, figure, mop, flt, rendered, tables, rop, bstep, storeVars,
      chatVars, schedVars, mapVars, analysisVars>>

\* between two turns a layer is added to the map or removed from it
ToolsChangeState ==
    /\ \E layers \in SUBSET LayerIds :
         /\ layers # live
         /\ live' = layers
    /\ UNCHANGED <<tool_meta, tool_decl, tool_defs, hooks, ToolsFrame>>

\* a turn of a BaseAgent: _build_tool_defs for its tool
ToolsSynthesize ==
    /\ tool_defs' =
         [done |-> TRUE, agent |-> "base", at |-> live,
          props |-> [i \in DOMAIN tool_meta |-> BuildProperty(tool_meta[i], live)],
          with_definitions |-> UsedDefs(tool_meta) # {},
          definitions |-> Definitions(UsedDefs(tool_meta))]
    /\ tool_meta' = [i \in DOMAIN tool_meta |-> SpecAfterBuild(tool_meta[i], live)]
    /\ UNCHANGED <<tool_decl, live, hooks, ToolsFrame>>

\* a turn of the GeoAgent: the remove_map_layer tool is built from the map
ToolsGeoSynthesize ==
    /\ tool_defs' =
         [done |-> TRUE, agent |-> "geo", at |-> live,
          props |-> <<BuildRemoveLayerDef(live)>>,
          with_definitions |-> FALSE,
          definitions |-> EmptyMap]
    /\ UNCHANGED <<tool_meta, tool_decl, live, hooks, ToolsFrame>>

InitTools ==
    /\ tool_meta \in SeqsUpTo(ParamSpecs, MaxParams)
    /\ tool_decl = tool_meta
    /\ live = {}
    /\ tool_defs = NoToolDefs
    /\ hooks = NoHooks
    /\ StoreIdle
    /\ handlerKind = "plotly"
    /\ mop = NoMapOp
    /\ flt = NoFilter
    /\ rendered = NoRendering
    /\ tables = <<>>
    /\ rop = NoRegistryOp
    /\ bstep = NoBufferStep
    /\ MapInit
    /\ AnalysisIdle
    /\ agentKind = "geo"
    /\ messages = <<InitialDevMessage>>
    /\ lastSys = InitialDevMessage
    /\ emitter = 0
    /\ clients = {}
    /\ pc = [s \in Sessions |-> "closed"]
    /\ turn = [s \in Sessions |-> 0]
    /\ nitems = [s \in Sessions |-> 0]
    /\ idx = [s \in Sessions |-> 0]
    /\ cur = [s \in Sessions |-> NoItem]
    /\ made_calls = [s \in Sessions |-> FALSE]
    /\ result = [s \in Sessions |-> None]
    /\ ret = [s \in Sessions |-> None]
    /\ outbox = [s \in Sessions |-> <<>>]
    /\ nturns = 0
    /\ trace = [s \in Sessions |-> <<>>]
    /\ last = 0
    /\ switches = 0

NextTools ==
    \/ ToolsChangeState
    \/ ToolsSynthesize
    \/ ToolsGeoSynthesize

SpecTools == InitTools /\ [][NextTools]_vars

(***************************************************************************)
(* The hooks of an agent class: @prechat, @postchat, @system_message        *)
(***************************************************************************)
Decorators == {"prechat", "postchat", "system_message"}
\* the attribute a decorator sets on the function it decorates
DecoratorAttr(d) ==
    CASE d = "prechat" -> "is_prechat"
      [] d = "postchat" -> "is_postchat"
      [] OTHER -> "_is_system_message"
\* the attributes found on the methods of a class that uses the decorators
ClassAttrs(cls) == {DecoratorAttr(d) : d \in cls}
\* _prechat_func, _postchat_func: the method carrying the attribute, if any
PrechatFunc(cls) == "_is_prechat" \in ClassAttrs(cls)
PostchatFunc(cls) == "_is_postchat" \in ClassAttrs(cls)
\* _build_system_message finds a method
SystemDeclared(cls) == "_is_system_message" \in ClassAttrs(cls)

\* what the transforms of the class make of a text
PreTransform(text) == <<"pre">> \o text
PostTransform(text) == <<"post">> \o text
UserTexts == {<<"hi">>, <<"map">>, <<"hi", "map">>}
Replies == {<<"ok">>, <<"done">>, <<"ok", "done">>}

Hooks(stage, cls, user_in, user_message, sys_arg, llm_reply, ai_message) ==
    [stage |-> stage, cls |-> cls, user_in |-> user_in, user_message |-> user_message,
     sys_arg |-> sys_arg, llm_reply |-> llm_reply, ai_message |-> ai_message]

\* everything but the hooks
HooksFrame ==
    <<handlerKind, figure, mop, flt, rendered, tables, rop, bstep, storeVars,
      tool_meta, tool_decl, live, tool_defs, chatVars, schedVars, mapVars, analysisVars>>

\* "if self._prechat_func: user_message = await _safe_run(...)"
HooksPrechat ==
    /\ hooks.stage = "start"
    /\ hooks' = [hooks EXCEPT !.stage = "pre",
                              !.user_message = IF PrechatFunc(hooks.cls)
                                               THEN PreTransform(hooks.user_in)
                                               ELSE hooks.user_in]
    /\ UNCHANGED HooksFrame

\* _build_system_message(user_message), then the user message is appended
HooksSystem ==
    /\ hooks.stage = "pre"
    /\ hooks' = IF SystemDeclared(hooks.cls)
                THEN [hooks EXCEPT !.stage = "sys", !.sys_arg = hooks.user_message]
                ELSE [hooks EXCEPT !.stage = "SystemMessageNotDeclared"]
    /\ UNCHANGED HooksFrame

\* ai_message = response.output_text
HooksReply ==
    /\ hooks.stage = "sys"
    /\ \E text \in Replies :
         hooks' = [hooks EXCEPT !.stage = "reply", !.llm_reply = text]
    /\ UNCHANGED HooksFrame

\* "if self._postchat_func: ai_message = await _safe_run(...)"; ai_message is
\* then appended, emitted with SUCCEDED and returned
HooksPostchat ==
    /\ hooks.stage = "reply"
    /\ hooks' = [hooks EXCEPT !.stage = "done",
                              !.ai_message = IF PostchatFunc(hooks.cls)
                                             THEN PostTransform(hooks.llm_reply)
                                             ELSE hooks.llm_reply]
    /\ UNCHANGED HooksFrame

InitHooks ==
    /\ \E cls \in SUBSET Decorators, text \in UserTexts :
         hooks = Hooks("start", cls, text, <<>>, <<>>, <<>>, <<>>)
    /\ tool_meta = EmptyMap
    /\ tool_decl = EmptyMap
    /\ live = {}
    /\ tool_defs = NoToolDefs
    /\ StoreIdle
    /\ handlerKind = "plotly"
    /\ mop = NoMapOp
    /\ flt = NoFilter
    /\ rendered = NoRendering
    /\ tables = <<>>
    /\ rop = NoRegistryOp
    /\ bstep = NoBufferStep
    /\ MapInit
    /\ AnalysisIdle
    /\ agentKind = "base"
    /\ messages = <<>>
    /\ lastSys = NoMsg
    /\ emitter = 0
    /\ clients = {}
    /\ pc = [s \in Sessions |-> "closed"]
    /\ turn = [s \in Sessions |-> 0]
    /\ nitems = [s \in Sessions |-> 0]
    /\ idx = [s \in Sessions |-> 0]
    /\ cur = [s \in Sessions |-> NoItem]
    /\ made_calls = [s \in Sessions |-> FALSE]
    /\ result = [s \in Sessions |-> None]
    /\ ret = [s \in Sessions |-> None]
    /\ outbox = [s \in Sessions |-> <<>>]
    /\ nturns = 0
    /\ trace = [s \in Sessions |-> <<>>]
    /\ last = 0
    /\ switches = 0

NextHooks ==
    \/ HooksPrechat
    \/ HooksSystem
    \/ HooksReply
    \/ HooksPostchat

SpecHooks == InitHooks /\ [][NextHooks]_vars

(***************************************************************************)
(* Properties                                                              *)
(***************************************************************************)
\* the positions of chat() after the system message of the turn was installed
AfterSystem == {"tools", "llm1", "loop", "emit", "invoke", "record", "llm2", "final"}

Phase(j) ==
    CASE j % 4 = 1 -> "call"
      [] j % 4 = 2 -> "processing"
      [] j % 4 = 3 -> "invoke"
      [] OTHER     -> "output"

\* C2: within a turn the calls are dispatched in the order of the LLM's
\* output, and for each call: the call item is appended, `processing` is
\* emitted, the handler is invoked, the tool output is appended, all before
\* the next call begins
C2_DispatchOrder ==
    \A s \in Sessions : \A j \in 1..Len(trace[s]) :
        /\ trace[s][j][1] = Phase(j)
        /\ j > 1 => IF Phase(j) = "call"
                    THEN trace[s][j][2] > trace[s][j - 1][2]
                    ELSE trace[s][j][2] = trace[s][j - 1][2]

\* C3: when a handler raises, the kernel emits an `error` event, records the
\* failure text as the tool output of the call and goes on with the loop (the
\* next item, then the follow-up LLM call); the exception does not leave chat()
C3_HandlerFailureContained ==
    [][ agentKind = "base" =>
        \A s \in Sessions :
          /\ (pc[s] = "invoke" /\ pc'[s] # "invoke") =>
                /\ pc'[s] = "record"
                /\ ret'[s] # "raised"
                /\ result'[s] = "failed" =>
                      outbox'[emitter] =
                          Append(outbox[emitter], Event("tool", "error", turn[s], idx[s]))
          /\ (pc[s] = "record" /\ pc'[s] # "record" /\ result[s] = "failed") =>
                /\ messages' = Append(messages, OutputMsg(s, turn[s], idx[s], "failed"))
                /\ pc'[s] = "loop"
                /\ idx'[s] = idx[s] + 1
          /\ (pc[s] = "loop" /\ made_calls[s] /\ pc'[s] \notin {"loop", "emit", "dead"}) =>
                pc'[s] = "llm2" ]_vars

\* C3 witness: the first call of a turn failed, its failure text is recorded,
\* a later call was dispatched and the follow-up LLM call is reached
C3_Witness ==
    /\ agentKind = "base"
    /\ \E s \in clients :
        /\ pc[s] = "llm2"
        /\ \E i, j \in 1..Len(messages) :
              /\ i < j
              /\ messages[i] = OutputMsg(s, turn[s], 1, "failed")
              /\ messages[j] = CallMsg(s, turn[s], 2)

\* C4: when the first LLM call fails the agent emits `error`, appends the
\* canned assistant message and returns the error string without raising; no
\* tool is dispatched and the session goes on to its next frame
C4_FirstLLMFailureContained ==
    [][ \A s \in Sessions :
          (pc[s] = "llm1" /\ pc'[s] # "llm1") =>
             \/ pc'[s] = "loop"
             \/ /\ pc'[s] = "idle"
                /\ ret'[s] = "error_string"
                /\ messages' = Append(messages, AssistantMsg(s, turn[s], Canned))
                /\ outbox'[emitter] =
                       Append(outbox[emitter], Event("emit", "error", turn[s], 0))
                /\ trace'[s] = <<>> ]_vars

\* C5: no failure inside a turn ends the receive loop of the session: chat()
\* never raises into websocket_endpoint
C5_NoFailureEndsSession ==
    \A s \in Sessions : ret[s] # "raised"

\* C6: each session has its own conversation: the messages of a list belong
\* to one session, and at most one turn is in progress on a message list
C6_SessionIsolation ==
    /\ \A s, t \in Sessions : (InTurn(s) /\ InTurn(t)) => s = t
    /\ \A i, j \in 1..Len(messages) :
          (messages[i].sid \in Sessions /\ messages[j].sid \in Sessions) =>
              messages[i].sid = messages[j].sid

\* the plan was accepted by validation
Accepted == apc \in {"execute", "report", "cleanup", "done"} /\ raised # "ValidationError"

\* the SQL steps before position p whose table exists
CreatedBefore(p) ==
    {q \in 1..(p - 1) : IsSQLStep(plan.steps[q])}

\* C7: when a SQL step fails no later step is executed, the typed failure is
\* raised, and after cleanup every table created before the failure is
\* dropped (no step of these plans retains a table)
C7_FailureCleanup ==
    (apc = "done" /\ failed_at > 0) =>
        /\ ran[Len(ran)] = failed_at
        /\ raised = "AnalysisSQLStepFailed"
        /\ \A q \in CreatedBefore(failed_at) :
              Qualified(plan.name, plan.steps[q].output_table) \notin db

\* C8: after a successful plan every table of a TableCreated item is in the
\* registry and every created table outside the final tables is dropped
C8_SuccessCleanup ==
    (apc = "done" /\ raised = None) =>
        /\ \A i \in 1..Len(items) :
              items[i].type = "TableCreated" =>
                  RegistryLookup(registry, items[i].table) # {}
        /\ \A q \in 1..Len(plan.steps) :
              (IsSQLStep(plan.steps[q]) /\ Name(plan.steps[q].output_table) \notin FinalTables(plan, slots)) =>
                  Qualified(plan.name, plan.steps[q].output_table) \notin db

\* C9: in an accepted plan an index i refers to the output of a step that
\* precedes the step using it
C9_BackReferenceOnly ==
    Accepted =>
        \A p \in 1..Len(plan.steps) : \A j \in 1..Len(plan.steps[p].src) :
            LET i == plan.steps[p].src[j].output_table_idx
                pos == SQLPositions(plan.steps, 1) IN
            i # NoIdx => (i + 1 \in 1..Len(pos) /\ pos[i + 1] < p)

\* C10: after validation every slot is fully qualified: an index i (0
\* included) as {analysis name}.{i-th output}, a named table as
\* {base schema}.{table}
C10_SlotsQualified ==
    Accepted =>
        \A p \in 1..Len(plan.steps) : \A j \in 1..Len(plan.steps[p].src) :
            LET sl == plan.steps[p].src[j]
                ot == output_tables(plan) IN
            IF sl.output_table_idx # NoIdx
            THEN /\ sl.output_table_idx + 1 \in 1..Len(ot)
                 /\ slots[p][j] = Qualified(plan.name, ot[sl.output_table_idx + 1])
            ELSE slots[p][j] = Qualified(BaseSchema, sl.source_table)

\* C11: an add under an id already on the map replaces the layer: the id has
\* the layer and the filters of the latest add (none recorded when the add
\* gave none) and every other layer and its filters are as before
C11_AddReplaces ==
    [][ mop'.op = "add" =>
        LET id == mop'.layer_id IN
        /\ DOMAIN map_layers' = DOMAIN map_layers \cup {id}
        /\ DOMAIN layer_filters' = DOMAIN layer_filters \cup {id}
        /\ map_layers'[id] = LayerOf(mop'.table, mop'.color, mop'.filters, mop'.style)
        /\ layer_filters'[id] = mop'.filters
        /\ \A k \in DOMAIN map_layers \ {id} : map_layers'[k] = map_layers[k]
        /\ \A k \in DOMAIN layer_filters \ {id} : layer_filters'[k] = layer_filters[k] ]_vars

\* C11 witness: a layer with filters was added again without filters while
\* another layer is on the map
C11_Witness ==
    /\ mop.op = "add"
    /\ mop.existed
    /\ mop.filters = <<>>
    /\ layer_filters[mop.layer_id] = <<>>
    /\ \E k \in DOMAIN layer_filters \ {mop.layer_id} : layer_filters[k] # <<>>

\* C12: removing an id that is not on the map changes nothing of the map
\* state and returns normally
C12_RemoveAbsentIsNoop ==
    [][ (mop'.op = "remove" /\ ~mop'.existed) =>
            /\ ~mop'.raised
            /\ UNCHANGED mapVars ]_vars

\* C13: after a reset the map has no layer and no recorded filters
C13_ResetClears ==
    mop.op = "reset" => (DOMAIN map_layers = {} /\ DOMAIN layer_filters = {})

\* C13 witness: a reset of a map that had layers
C13_Witness ==
    /\ mop.op = "reset"
    /\ mop.existed
    /\ DOMAIN map_layers = {}

\* C14: whenever the map has no layer, the figure exported then shows the
\* whole world and has no layers
C14_EmptyMapIsWorld ==
    (mop.op = "update_figure" /\ DOMAIN map_layers = {}) =>
        (figure.viewport = World /\ figure.layers = {})

\* C17 as stated: the ids with a layer are the ids with recorded filters
C17_LayerIdsAreFilterIds ==
    DOMAIN map_layers = DOMAIN layer_filters

\* C17: the ids with recorded filters are ids with a layer, the only id that
\* can have a layer without recorded filters is the base layer 'default' of
\* DashLeafletMapHandler; after an add both hold the id, after a remove
\* neither does
C17_LayerIdsAreFilterIdsButDefault ==
    /\ DOMAIN layer_filters \subseteq DOMAIN map_layers
    /\ DOMAIN map_layers \ DOMAIN layer_filters \subseteq
          (IF handlerKind = "leaflet" THEN {"default"} ELSE {})
    /\ mop.op = "add" => mop.layer_id \in DOMAIN map_layers \cap DOMAIN layer_filters
    /\ mop.op = "remove" => mop.layer_id \notin DOMAIN map_layers \cup DOMAIN layer_filters

\* C17 witness: a layer was removed while another stays on the map
C17_Witness ==
    /\ mop.op = "remove"
    /\ mop.existed
    /\ \E k \in LayerIds : k \in DOMAIN map_layers /\ k \in DOMAIN layer_filters

\* ---- what a rendered predicate selects ----
\* the rows of a table whose column f has the type of the filter's value
Rows(type) ==
    CASE type = "str" -> {[type |-> "str", value |-> v] : v \in Strings(MaxRowLen)}
      [] type = "int" -> {[type |-> "int", value |-> <<n>>] : n \in {"0", "1"}}
      [] OTHER -> {[type |-> "bool", value |-> <<b>>] : b \in {"true", "false"}}

\* a doubled quote read back as one quote
RECURSIVE Collapse(_)
Collapse(v) ==
    IF v = <<>> THEN <<>>
    ELSE IF Len(v) >= 2 /\ v[1] = "'" /\ v[2] = "'"
         THEN <<"'">> \o Collapse(SubSeq(v, 3, Len(v)))
         ELSE <<Head(v)>> \o Collapse(Tail(v))

\* the value a literal denotes
ParseLiteral(lit) ==
    IF lit # <<>> /\ Head(lit) = "'"
    THEN [type |-> "str", value |-> Collapse(SubSeq(lit, 2, Len(lit) - 1))]
    ELSE IF lit[1] \in {"true", "TRUE"} THEN [type |-> "bool", value |-> <<"true">>]
    ELSE IF lit[1] \in {"false", "FALSE"} THEN [type |-> "bool", value |-> <<"false">>]
    ELSE [type |-> "int", value |-> lit]

\* the predicate of the SQL text and of the decoded CQL text
ParseSql(t) == [op |-> t[5], lit |-> ParseLiteral(SubSeq(t, 7, Len(t)))]
ParseCql(t) == [op |-> t[3], lit |-> ParseLiteral(SubSeq(t, 5, Len(t)))]

Rank(c) ==
    CASE c \in {"0", "false", "%"} -> 0
      [] c \in {"1", "true", "'"} -> 1
      [] c = "." -> 2
      [] OTHER -> 3

RECURSIVE Less(_, _)
Less(x, y) ==
    IF y = <<>> THEN FALSE
    ELSE IF x = <<>> THEN TRUE
    ELSE IF Rank(Head(x)) # Rank(Head(y)) THEN Rank(Head(x)) < Rank(Head(y))
    ELSE Less(Tail(x), Tail(y))

\* x LIKE pattern: % stands for any run of characters
RECURSIVE LikeMatch(_, _)
LikeMatch(pat, x) ==
    IF pat = <<>> THEN x = <<>>
    ELSE IF Head(pat) = "%"
         THEN \E k \in 0..Len(x) : LikeMatch(Tail(pat), SubSeq(x, k + 1, Len(x)))
         ELSE x # <<>> /\ Head(x) = Head(pat) /\ LikeMatch(Tail(pat), Tail(x))

\* x ~ pattern: the regular expression is searched anywhere in x; . stands
\* for any one character
RegexSearch(pat, x) ==
    \E i \in 1..(Len(x) + 1) :
        /\ i + Len(pat) - 1 <= Len(x)
        /\ \A k \in 1..Len(pat) : pat[k] = "." \/ pat[k] = x[i + k - 1]

\* whether the predicate can be evaluated on a column of the type: the
\* literal has the column's type, and LIKE and ~ want text
Evaluable(pred, type) ==
    /\ pred.lit.type = type
    /\ pred.op \in {"LIKE", "~"} => type = "str"

Holds(pred, row) ==
    CASE pred.op = "=" -> row.value = pred.lit.value
      [] pred.op \in {"<>", "!="} -> row.value # pred.lit.value
      [] pred.op = "<" -> Less(row.value, pred.lit.value)
      [] pred.op = ">" -> Less(pred.lit.value, row.value)
      [] pred.op = "<=" -> ~Less(pred.lit.value, row.value)
      [] pred.op = ">=" -> ~Less(row.value, pred.lit.value)
      [] pred.op = "LIKE" -> LikeMatch(pred.lit.value, row.value)
      [] pred.op = "~" -> RegexSearch(pred.lit.value, row.value)

\* the rows a predicate selects, or the failure of the query
Selection(pred, type) ==
    IF Evaluable(pred, type)
    THEN [error |-> FALSE, rows |-> {r \in Rows(type) : Holds(pred, r)}]
    ELSE [error |-> TRUE, rows |-> {}]

\* C15: the SQL form and the CQL form of a filter select the same rows
C15_SqlAndCqlAgree ==
    rendered.done =>
        Selection(ParseSql(rendered.sql), flt.type)
            = Selection(ParseCql(UrlUnquote(rendered.cql)), flt.type)

\* lit is a single-quoted literal whose inside is v with every quote doubled
RECURSIVE Doubled(_, _)
Doubled(inner, v) ==
    IF v = <<>> THEN inner = <<>>
    ELSE IF Head(v) = "'"
         THEN /\ Len(inner) >= 2
              /\ inner[1] = "'"
              /\ inner[2] = "'"
              /\ Doubled(SubSeq(inner, 3, Len(inner)), Tail(v))
         ELSE /\ inner # <<>>
              /\ Head(inner) = Head(v)
              /\ Doubled(Tail(inner), Tail(v))

QuotedLiteralOf(lit, v) ==
    /\ Len(lit) >= 2
    /\ lit[1] = "'"
    /\ lit[Len(lit)] = "'"
    /\ Doubled(SubSeq(lit, 2, Len(lit) - 1), v)

\* C16: a string value is rendered, by the SQL form, by the CQL form and by
\* the quoting of the analysis filter step, as a single-quoted literal with
\* every quote of the value doubled
C16_QuotesDoubled ==
    (rendered.done /\ flt.type = "str") =>
        /\ QuotedLiteralOf(SubSeq(rendered.sql, 7, Len(rendered.sql)), flt.value)
        /\ LET cql == UrlUnquote(rendered.cql) IN
           QuotedLiteralOf(SubSeq(cql, 5, Len(cql)),
                           IF flt.op = "contains" THEN <<"%">> \o flt.value \o <<"%">>
                           ELSE flt.value)
        /\ QuotedLiteralOf(rendered.step, flt.value)

\* ---- the registry ----
\* whether a table passes a pair that filters; what a fields pair makes of it
Passes(pair, t) ==
    CASE pair.kind = "schema" -> <<t.schema>> = pair.val
      [] pair.kind = "table" -> <<t.name>> = pair.val
      [] OTHER -> TRUE

Projected(t, fields) ==
    [t EXCEPT !.columns =
        SelectSeq(t.columns, LAMBDA c : \E i \in 1..Len(fields) : fields[i] = c)]

\* the pairs up to the k-th applied one after the other
RECURSIVE Successive(_, _, _)
Successive(tabs, conds, k) ==
    IF k = 0 THEN tabs
    ELSE LET prev == Successive(tabs, conds, k - 1)
             pair == conds[k] IN
         IF pair.kind = "fields"
         THEN LET proj == [i \in 1..Len(prev) |-> Projected(prev[i], pair.val)] IN
              SelectSeq(proj, LAMBDA t : Len(t.columns) > 0)
         ELSE SelectSeq(prev, LAMBDA t : Passes(pair, t))

\* C18: a query completes, returns the tables left by its pairs applied from
\* left to right (a fields pair projecting the columns and dropping the
\* tables left without any), and leaves the stored tables as they were
C18_QueryAppliesPairs ==
    rop.op = "query" =>
        /\ rop.raised = None
        /\ tables = rop.before
        /\ (\A k \in 1..Len(rop.conds) : rop.conds[k].kind # "analysis")
              => rop.result = Successive(rop.before, rop.conds, Len(rop.conds))

\* the entries of a registry under other names
Others(tabs, name) == {t \in Range(tabs) : t.name # name}

\* C19: register(name) returns the entry of that name and touches no entry
\* of another name, and after register(name); unregister(name) the entries
\* of the other names are those the registry had before
C19_RegisterThenUnregister ==
    /\ rop.op = "register" =>
          /\ rop.raised = None
          /\ rop.result.name = rop.name
          /\ Others(tables, rop.name) = Others(rop.before, rop.name)
    /\ (rop.op = "unregister" /\ rop.registered = {rop.name}) =>
          Others(tables, rop.name) = Others(rop.origin, rop.name)

\* whether a proposed field matches a column of a registered table
HasColumn(tabs, fr) ==
    \E t \in Range(tabs) : \E c \in Range(t.columns) : Lower(c) = Lower(fr.name)

\* C20: verify_fields returns the proposed fields that match a column of a
\* registered table whatever the case, each once, under the spelling of the
\* registry
C20_VerifiedFields ==
    rop.op = "verify_fields" =>
        /\ {r.info : r \in Range(rop.result)}
              = {fr.info : fr \in {p \in Range(rop.proposed) : HasColumn(rop.before, p)}}
        /\ \A i, j \in 1..Len(rop.result) :
              i # j => rop.result[i].info # rop.result[j].info
        /\ \A r \in Range(rop.result) :
              \E t \in Range(rop.before) : \E c \in Range(t.columns) :
                  c = r.name /\ Lower(c) = Lower(r.info)

\* a table an analysis created, in a schema of its own, not promoted to the
\* base schema
Temporary(t) == t.schema # BaseSchema

\* C21: after cleanup no temporary table is left in the registry or in the
\* database, and every other table is still registered
C21_CleanupDropsTemporary ==
    rop.op = "cleanup" =>
        /\ rop.raised = None
        /\ \A t \in Range(rop.before) :
              IF Temporary(t) THEN t \notin Range(tables) /\ t.id \notin db
              ELSE t \in Range(tables)

\* C28: when the discovery of one table of the index fails, loading returns
\* and registers every other table of the index, and not that one
C28_LoadOmitsFailedTable ==
    (rop.op = "load" /\ rop.failing # 0) =>
        /\ rop.raised = None
        /\ Range(tables)
              = {rop.index[i] : i \in (1..Len(rop.index)) \ {rop.failing}}

\* C29: no buffer step with a distance of 0 or less passes validation or
\* reaches the SQL
C29_BufferDistancePositive ==
    bstep.status \in {"validated", "executed"} => bstep.step.buffer_distance > 0

\* the tables of the database in the schema of the analysis
InAnalysisSchema == {t \in db : t[1] = plan.name}

\* C27: after an analysis that failed the map is as it was before the
\* analysis (the map of a fresh handler here) and the schema of the
\* analysis holds no table
C27_FailedAnalysisLeavesNothing ==
    (apc = "done" /\ raised # None) =>
        /\ map_layers = EmptyMap
        /\ layer_filters = EmptyMap
        /\ active_table = None
        /\ InAnalysisSchema = {}

\* C30: in a plan that validation accepted no two steps have the same
\* output_table
C30_OutputTablesUnique ==
    (apc \notin {"off", "parse"} /\ raised # "ValidationError") =>
        \A i, j \in 1..Len(output_tables(plan)) :
            i # j => output_tables(plan)[i] # output_tables(plan)[j]

\* ---- the document store ----
NamesOf(results) == {results[i].name : i \in 1..Len(results)}
\* where a name is seen first in the results of a term
FirstSeen(results, name) ==
    CHOOSE i \in 1..Len(results) :
        /\ results[i].name = name
        /\ \A j \in 1..(i - 1) : results[j].name # name

\* C22: after each term of a smart query the results so far hold each name
\* once; the documents seen with earlier terms keep their places, and those
\* the term brought for the first time follow in the order the term returned
\* them (so the list returned is the union by name in first-seen order)
C22_FirstSeenOrder ==
    (smart.status \in {"querying", "returned"} /\ smart.last # <<>>) =>
        /\ \A i, j \in 1..Len(smart.total) :
              i # j => smart.total[i].name # smart.total[j].name
        /\ SubSeq(smart.total, 1, Len(smart.before)) = smart.before
        /\ NamesOf(smart.total) = NamesOf(smart.before) \cup NamesOf(smart.last)
        /\ \A i, j \in (Len(smart.before) + 1)..Len(smart.total) :
              /\ smart.total[i] = smart.last[FirstSeen(smart.last, smart.total[i].name)]
              /\ i < j => FirstSeen(smart.last, smart.total[i].name)
                            < FirstSeen(smart.last, smart.total[j].name)

\* a later term returned a document an earlier term had returned, and the
\* query returned
C22_Witness ==
    /\ smart.status = "returned"
    /\ smart.before # <<>>
    /\ \E i \in 1..Len(smart.last) : smart.last[i].name \in NamesOf(smart.before)
    /\ \E i \in 1..Len(smart.last) : smart.last[i].name \notin NamesOf(smart.before)

\* two ids of the store stand for the same part of the same source
SameDocument(d, e) == d.table = e.table /\ d.source = e.source /\ d.name = e.name

\* C23: ingesting a source again changes nothing: a document has one id
\* whichever process ingested it, and the index holds no id twice, so that a
\* search returns no document twice
C23_ReingestIdempotent ==
    sop.op = "add" =>
        /\ \A d, e \in DOMAIN documents :
              SameDocument(documents[d], documents[e]) => d = e
        /\ \A i, j \in 1..Len(store_index) :
              i # j => store_index[i] # store_index[j]

\* C24: the ids of the index are the ids of the document map, in memory and
\* in the files
C24_IndexAndDocumentsAgree ==
    /\ {store_index[i] : i \in 1..Len(store_index)} = DOMAIN documents
    /\ {index_file[i] : i \in 1..Len(index_file)} = DOMAIN docs_file

\* an add completed while the add of another session awaited its embeddings
C24_Witness == sop.op = "add" /\ sop.overlapped

\* ---- the tool schemas ----
\* the registered types the properties of a schema refer to
Referenced(props) ==
    {n \in TypeRegistry :
        \E i \in DOMAIN props : props[i].ref = Ref(n) \/ props[i].items.ref = Ref(n)}

\* C25: in the schema of a tool every parameter and every array item
\* declared "#<name>" is a $ref to #/definitions/<name>, and the definitions
\* of the tool are those of the registered sub-types its properties refer
\* to, no more and no fewer
C25_MarkersResolved ==
    (tool_defs.done /\ tool_defs.agent = "base") =>
        /\ \A i \in DOMAIN tool_decl :
              /\ IsMarker(tool_decl[i].type) =>
                    tool_defs.props[i] = RefProperty(RefName(tool_decl[i].type))
              /\ (tool_decl[i].type = <<"array">> /\ IsMarker(tool_decl[i].items.type)) =>
                    tool_defs.props[i].items.ref = Ref(RefName(tool_decl[i].items.type))
        /\ DOMAIN tool_defs.definitions = Referenced(tool_defs.props)
        /\ \A n \in DOMAIN tool_defs.definitions :
              tool_defs.definitions[n] = Definition(n)

\* a tool with a parameter of a sub-type and an array of a sub-type, and a
\* registered sub-type the tool does not use
C25_Witness ==
    /\ tool_defs.done
    /\ tool_defs.agent = "base"
    /\ \E i, j \in DOMAIN tool_defs.props :
          /\ tool_defs.props[i].ref # NoRef
          /\ tool_defs.props[j].items.ref # NoRef
    /\ DOMAIN tool_defs.definitions # {}
    /\ TypeRegistry \ DOMAIN tool_defs.definitions # {}

\* C26: the schema of every turn carries, for each enum declared as a
\* callable (of a parameter or of the items of an array), the values the
\* state has at that turn, and the declaration of the tool stays as written
C26_EnumsFollowState ==
    tool_defs.done =>
        /\ tool_meta = tool_decl
        /\ tool_defs.agent = "geo" => tool_defs.props[1].enum = ListEnum(tool_defs.at)
        /\ tool_defs.agent = "base" =>
              \A i \in DOMAIN tool_decl :
                  /\ (~IsMarker(tool_decl[i].type) /\ tool_decl[i].enum.kind = "callable") =>
                        tool_defs.props[i].enum = ListEnum(tool_defs.at)
                  /\ (/\ tool_decl[i].type = <<"array">>
                      /\ tool_decl[i].items.type = <<"string">>
                      /\ tool_decl[i].items.enum.kind = "callable") =>
                        tool_defs.props[i].items.enum = ListEnum(tool_defs.at)

\* ---- the turn, once more ----
\* C31: when the first LLM call of a turn is made, element 0 of the list is
\* the system message of the turn, the last element is the user message of
\* the turn and the `generating` event of the turn has been emitted
C31_ReadyBeforeFirstCall ==
    \A s \in clients :
        pc[s] = "llm1" =>
            /\ Len(messages) >= 2
            /\ messages[1] = SysMsg(s, turn[s], Status(map_layers))
            /\ messages[Len(messages)] = UserMsg(s, turn[s])
            /\ \E i \in 1..Len(outbox[s]) :
                  outbox[s][i] = Event("emit", "generating", turn[s], 0)

\* the calls of the turn of s recorded in the list
CallsOfTurn(s) ==
    {i \in 1..Len(messages) : messages[i] = CallMsg(s, turn[s], messages[i].k)}

\* C32: the loop is followed by a second LLM call exactly when a call of the
\* turn was dispatched, and a second call that fails emits `error`, appends
\* the canned assistant message and returns without `succeeded`
C32_SecondCallIffTools ==
    [][ \A s \in Sessions :
          /\ (pc[s] = "loop" /\ pc'[s] \in {"llm2", "final"}) =>
                (pc'[s] = "llm2" <=> CallsOfTurn(s) # {})
          /\ (pc[s] = "llm2" /\ pc'[s] # "llm2") =>
                \/ /\ pc'[s] = "final"
                   /\ messages' = messages
                \/ /\ pc'[s] = "idle"
                   /\ ret'[s] = "error_string"
                   /\ messages' = Append(messages, AssistantMsg(s, turn[s], Canned))
                   /\ outbox'[emitter] =
                          Append(outbox[emitter], Event("emit", "error", turn[s], 0)) ]_vars

\* C33: with a pre-chat transform declared, the system-message builder and
\* the history get the transform's output; with a post-chat transform
\* declared, the reply appended, emitted and returned is the transform's
\* output
C33_TransformsApplied ==
    /\ (hooks.stage \in {"sys", "reply", "done"} /\ "prechat" \in hooks.cls) =>
          /\ hooks.user_message = PreTransform(hooks.user_in)
          /\ hooks.sys_arg = PreTransform(hooks.user_in)
    /\ (hooks.stage = "done" /\ "postchat" \in hooks.cls) =>
          hooks.ai_message = PostTransform(hooks.llm_reply)

\* ---- the execution of an analysis ----
\* C34: a step is run only once the schema of the analysis exists, and the
\* schema is not dropped while the analysis executes
C34_SchemaBeforeSteps ==
    [][ /\ ran' # ran => plan.name \in schemas
        /\ (plan.name \in schemas /\ apc = "execute") => plan.name \in schemas' ]_vars

\* C34 witness: two steps have run in the schema of the analysis
C34_Witness ==
    /\ Len(ran) = 2
    /\ plan.name \in schemas

\* the artifact of a step
ArtifactType(step) ==
    CASE IsSQLStep(step) -> "TableCreated"
      [] step.kind = "addLayer" -> "PlotlyMapLayerArguements"
      [] OTHER -> "SaveTable"

\* C35: the steps are run in the declared order, and the report of an
\* execution that succeeded holds one artifact per step, in that order, of
\* the type of the step
C35_OneArtifactPerStep ==
    /\ \A i \in 1..Len(ran) : ran[i] = i
    /\ (apc = "report" /\ raised = None) =>
          /\ Len(items) = Len(plan.steps)
          /\ \A p \in 1..Len(items) : items[p].type = ArtifactType(plan.steps[p])

\* C36: a step that fails leaves the committed tables as they were before
\* the step: nothing of the step stays, nothing of an earlier step goes
C36_StepTransaction ==
    [][ failed_at' # failed_at => db' = db ]_vars

\* ---- the bounds of the map ----
\* the bounds the tile server reports for a table: two tables that overlap,
\* neither inside the other
BoundsOf(table) ==
    IF table = "parcels" THEN [west |-> 0, east |-> 2, south |-> 0, north |-> 2]
    ELSE [west |-> 1, east |-> 3, south |-> 1, north |-> 3]

Least(S) == CHOOSE x \in S : \A y \in S : x <= y
Greatest(S) == CHOOSE x \in S : \A y \in S : x >= y

\* the smallest envelope around the bounds of a set of tables
Envelope(T) ==
    [west |-> Least({BoundsOf(t).west : t \in T}),
     east |-> Greatest({BoundsOf(t).east : t \in T}),
     south |-> Least({BoundsOf(t).south : t \in T}),
     north |-> Greatest({BoundsOf(t).north : t \in T})]

\* the tables the layers of the map refer to (the base tile layer of the
\* leaflet handler refers to none)
LayerTables ==
    {map_layers[k].sourcelayer :
        k \in {l \in DOMAIN map_layers : map_layers[l].type \notin {"VectorTileLayer", "TileLayer"}}}
    \cup {map_layers[k].url[1] :
        k \in {l \in DOMAIN map_layers : map_layers[l].type = "VectorTileLayer"}}

\* C37: while the map has a layer of a table, the bounds the viewport is
\* computed from are the envelope of the bounds of the tables of its layers
C37_BoundsAreUnion ==
    LayerTables # {} =>
        /\ GlobalBounds # None
        /\ BoundsOf(GlobalBounds) = Envelope(LayerTables)

\* ---- function calls and their outputs ----
\* the positions of the outputs that answer the call at position i: the
\* outputs after it that carry its call id
OutputsOf(msgs, i) ==
    {j \in (i + 1)..Len(msgs) :
        /\ msgs[j].role = "function_call_output"
        /\ msgs[j].sid = msgs[i].sid
        /\ msgs[j].turn = msgs[i].turn
        /\ msgs[j].k = msgs[i].k}

\* C38: whenever the LLM is about to be called, every function call of the
\* message list is followed by exactly one output with its call id
C38_CallsAnswered ==
    \A s \in clients :
        pc[s] \in {"llm1", "llm2"} =>
            \A i \in 1..Len(messages) :
                messages[i].role = "function_call" =>
                    Cardinality(OutputsOf(messages, i)) = 1

\* ---- the subscriber of a turn ----
\* the turns session s started: each is echoed on the websocket of s when its
\* user message is received
TurnsStartedBy(s) ==
    {outbox[s][i].turn : i \in {j \in 1..Len(outbox[s]) : outbox[s][j].kind = "echo"}}

\* C39: every progress event a subscriber received belongs to a turn that
\* its own session started
C39_EventsToOwner ==
    \A s \in Sessions :
        \A i \in 1..Len(outbox[s]) :
            outbox[s][i].kind # "echo" => outbox[s][i].turn \in TurnsStartedBy(s)

\* ---- the events of a turn ----
\* the progress events of the current turn of session s, in the order sent
EventsOfTurn(s) ==
    SelectSeq(outbox[s], LAMBDA e : e.kind # "echo" /\ e.turn = turn[s])

\* the positions of the assistant messages the current turn of s appended
AssistantOfTurn(s) ==
    {i \in 1..Len(messages) :
        /\ messages[i].role = "assistant"
        /\ messages[i].sid = s
        /\ messages[i].turn = turn[s]}

\* the turn of s has returned from BaseAgent.chat
Returned(s) ==
    /\ agentKind = "base"
    /\ pc[s] = "idle"
    /\ ret[s] \in {"reply", "error_string"}

\* C40: when a turn of BaseAgent.chat has returned, its first event is
\* generating, its last event is succeeded or error, succeeded was sent at
\* most once and only when the reply of the LLM is returned, and the turn
\* appended exactly one assistant message
C40_TurnEnvelope ==
    \A s \in clients :
        Returned(s) =>
            LET evs == EventsOfTurn(s)
                succeeded == {i \in 1..Len(evs) : evs[i].status = "succeeded"}
            IN /\ Len(evs) >= 2
               /\ evs[1] = Event("emit", "generating", turn[s], 0)
               /\ evs[Len(evs)] \in {Event("ai", "succeeded", turn[s], 0),
                                     Event("emit", "error", turn[s], 0)}
               /\ Cardinality(succeeded) <= 1
               /\ succeeded # {} => ret[s] = "reply"
               /\ Cardinality(AssistantOfTurn(s)) = 1

\* a turn returned the reply of the LLM after one of its tools had failed
C40_Witness ==
    \E s \in clients :
        /\ Returned(s)
        /\ ret[s] = "reply"
        /\ \E i \in 1..Len(EventsOfTurn(s)) :
              /\ EventsOfTurn(s)[i].kind = "tool"
              /\ EventsOfTurn(s)[i].status = "error"

====
